---------------------------- MODULE Spec2Model ----------------------------
(***************************************************************************)
(* Record consolidation and enrichment pipeline of publiccamhelpers.       *)
(*                                                                         *)
(* Texts are TLA+ strings; a character is a string of length one.  The     *)
(* string functions of the Python code (lower, in, startswith, split,      *)
(* title, replace, re.search, re.match) are operators computed character   *)
(* by character.  A JSON value that may be null is a sequence: <<>> is     *)
(* null/None and <<n>> is the number n.                                    *)
(***************************************************************************)
EXTENDS Integers, Sequences, FiniteSets, TLC

VARIABLES
    h1, h2, result,             \* classify_record: its arguments, its return value
    data, idx, output_data,     \* classify_records.main: the loaded records, the number
    stats, skyline_webcams,     \*   of them processed, the new records, the counters,
    mpc,                        \*   the file skyline_webcams.json, the position in main
    webcam_locations,           \* the file webcam_locations.json (country -> records)
    ci, links_left,             \* rescrape_regional.main: the countries done, the links
    country_records, rpc,       \*   still to scrape, the records so far, the position
    kind, raw, once, twice,     \* a canonicalizer ("label" or "slug"), its input, and
                                \*   its result applied once and twice
    earthcams, webcamtaxi,      \* the places of earthcams.json, the features of
    combined_json, runs,        \*   webcamtaxi.json, the file combined.json (<<>> while
                                \*   absent, else <<buckets>>), the runs so far
    pass, transformed,          \* the script that is running ("idle" if none), its list
    wct_targets, results,       \*   transformed or wct_targets, the results of its
    last, ending,               \*   futures (<<>> while pending); the pass, work list
                                \*   and results of the last finished run, and how it ended
    gscript, gpc, gpage,        \* a geocoding driver: the script, its position, the page
    gquery, gqueries,           \*   or record it handles, the query, the list of queries
    gresponse, gresult,         \*   to try, the last answer of the Places API, what
    grecord,                    \*   geocode_query made of it, the record the driver stores,
    gcountry, glookups,         \*   the country of the record, and the calls of
                                \*   geocode_query for it so far (query and result)
    yargs, wct_records,         \* fetch_wct_youtube.main: its arguments, the records it
    batch_idx, queue,           \*   targets, the batch it is at, the queue of the batch,
    batch_results, tasks,       \*   the results dict of the batch, the worker tasks,
    found_count, disk, ypc,     \*   the urls found, combined.json as last written by
                                \*   this run (<<>> if not written), the position in main
    page_users, fetches,        \* the workers that use each browser page now, the workers
    yt_input, yt_log            \*   that fetched each record, the records as loaded, the
                                \*   result stored for each record

fnVars == <<h1, h2, result>>
mainVars == <<data, idx, output_data, stats, skyline_webcams, mpc>>
rescrapeVars == <<webcam_locations, ci, links_left, country_records, rpc>>
canonVars == <<kind, raw, once, twice>>
mergeVars == <<earthcams, webcamtaxi, combined_json, runs,
              pass, transformed, wct_targets, results, last, ending>>
geoVars == <<gscript, gpc, gpage, gquery, gqueries, gresponse, gresult, grecord,
             gcountry, glookups>>
ytVars == <<yargs, wct_records, batch_idx, queue, batch_results, tasks, found_count, disk,
            ypc, page_users, fetches, yt_input, yt_log>>
vars == <<fnVars, mainVars, rescrapeVars, canonVars, mergeVars, geoVars, ytVars>>

-----------------------------------------------------------------------------
(* Python string primitives *)

Char(s, i) == SubSeq(s, i, i)

UpperLetters == "ABCDEFGHIJKLMNOPQRSTUVWXYZÁÉÍÓÚÑÜÇÊÖ"
LowerLetters == "abcdefghijklmnopqrstuvwxyzáéíóúñüçêö"
Digits == "0123456789"

\* the characters of a string, as a set
CharSet(chars) == {Char(chars, i) : i \in 1..Len(chars)}

UpperSet == CharSet(UpperLetters)
LowerSet == CharSet(LowerLetters)
WordCharSet == UpperSet \cup LowerSet \cup CharSet(Digits) \cup {"_"}

LowerMap == [c \in UpperSet |->
               Char(LowerLetters, CHOOSE i \in 1..Len(UpperLetters) : Char(UpperLetters, i) = c)]
UpperMap == [c \in LowerSet |->
               Char(UpperLetters, CHOOSE i \in 1..Len(LowerLetters) : Char(LowerLetters, i) = c)]

\* str.lower() and str.upper() on one character
LowerChar(c) == IF c \in UpperSet THEN LowerMap[c] ELSE c
UpperChar(c) == IF c \in LowerSet THEN UpperMap[c] ELSE c

RECURSIVE Lower(_)
Lower(s) == IF s = "" THEN "" ELSE LowerChar(Char(s, 1)) \o Lower(Tail(s))

\* Python's "sub in text" on strings
Contains(text, sub) ==
    \E i \in 1..(Len(text) - Len(sub) + 1) : SubSeq(text, i, i + Len(sub) - 1) = sub

\* str.startswith
StartsWith(text, prefix) ==
    Len(prefix) <= Len(text) /\ SubSeq(text, 1, Len(prefix)) = prefix

\* the regular expression classes \w and \s (Unicode str patterns)
IsWordChar(c) == c \in WordCharSet
IsSpace(c) == c = " "

\* \b at the gap in front of character p (1 <= p <= Len(text) + 1)
WordBoundary(text, p) ==
    LET before == p > 1 /\ IsWordChar(Char(text, p - 1))
        after == p <= Len(text) /\ IsWordChar(Char(text, p))
    IN before # after

\* a keyword search without the word boundaries
WordSearchSubstring(kw, text) == Contains(text, kw)

\* re.search(r'\b' + re.escape(kw) + r'\b', text): the keywords hold no
\* character that re.escape changes
WordSearch(kw, text) ==
    \E i \in 1..(Len(text) - Len(kw) + 1) :
        /\ SubSeq(text, i, i + Len(kw) - 1) = kw
        /\ WordBoundary(text, i)
        /\ WordBoundary(text, i + Len(kw))

-----------------------------------------------------------------------------
(* classify_records.py *)

SPECIFIC_KEYWORDS == <<
    "beach", "playa", "sands", "reef", "cove", "bay",
    "plaza", "square", "piazza", "platz",
    "church", "cathedral", "basilica", "chapel", "mosque", "parish",
    "lighthouse", "faro",
    "pier", "dock", "wharf", "marina", "harbour", "harbor", "port",
    "airport", "runway", "station",
    "bridge", "puente",
    "monument", "obelisk", "statue", "memorial", "fountain",
    "tower", "castle", "fortress", "fort",
    "park", "garden", "zoo",
    "museum", "theater", "theatre", "stadium",
    "market", "shop", "restaurant", "bar", "cafe",
    "waterfall", "canyon", "cave", "volcano",
    "temple", "shrine", "monastery",
    "pool", "resort",
    "ski", "slope",
    "nest", "cahow", "falcon",
    "underwater", "coral",
    "crossing", "road", "street", "avenue", "avenida",
    "village", "köyü",
    "clock",
    "inspection" >>

VAGUE_KEYWORDS == << "panorama", "panoramic", "skyline", "northern lights", "traffic" >>

\* the if/elif chain under the keyword loop, with the pair of its last else;
\* kw in ("station") is Python's substring test of kw in the string "station"
LandmarkChain(kw, otherwise) ==
    IF kw \in {"beach", "playa", "sands", "cove", "bay", "reef"} THEN <<"automatic", 200>>
    ELSE IF kw \in {"plaza", "square", "piazza", "platz", "fountain",
                    "monument", "obelisk", "statue", "memorial"} THEN <<"automatic", 100>>
    ELSE IF kw \in {"church", "cathedral", "basilica", "chapel",
                    "mosque", "parish", "temple", "shrine", "monastery"} THEN <<"automatic", 100>>
    ELSE IF kw \in {"lighthouse", "faro"} THEN <<"automatic", 50>>
    ELSE IF kw \in {"pier", "dock", "wharf", "marina"} THEN <<"automatic", 150>>
    ELSE IF kw \in {"harbour", "harbor", "port"} THEN <<"automatic", 300>>
    ELSE IF kw \in {"airport", "runway"} THEN <<"automatic", 500>>
    ELSE IF Contains("station", kw) THEN <<"automatic", 200>>
    ELSE IF kw \in {"bridge", "puente"} THEN <<"automatic", 200>>
    ELSE IF kw \in {"tower", "castle", "fortress", "fort"} THEN <<"automatic", 150>>
    ELSE IF kw \in {"park", "garden", "zoo"} THEN <<"automatic", 300>>
    ELSE IF kw \in {"museum", "theater", "theatre", "stadium"} THEN <<"automatic", 200>>
    ELSE IF kw \in {"market", "shop", "restaurant", "bar", "cafe"} THEN <<"automatic", 100>>
    ELSE IF kw \in {"waterfall", "canyon", "cave"} THEN <<"automatic", 300>>
    ELSE IF Contains("volcano", kw) THEN <<"automatic", 500>>
    ELSE IF kw \in {"pool", "resort"} THEN <<"automatic", 200>>
    ELSE IF kw \in {"ski", "slope"} THEN <<"automatic", 500>>
    ELSE IF kw \in {"nest", "cahow", "falcon"} THEN <<"manual", 500>>
    ELSE IF kw \in {"underwater", "coral"} THEN <<"manual", 300>>
    ELSE IF kw \in {"crossing", "road", "street", "avenue", "avenida"} THEN <<"automatic", 200>>
    ELSE IF kw \in {"village", "köyü"} THEN <<"automatic", 500>>
    ELSE IF Contains("clock", kw) THEN <<"automatic", 100>>
    ELSE IF Contains("inspection", kw) THEN <<"manual", 500>>
    ELSE otherwise

\* the pair the chain returns for a keyword
LandmarkPair(kw) == LandmarkChain(kw, <<"automatic", 200>>)

\* a vague-keyword test that looks for whole words only
VagueMatchWholeWord(kw, combined) == WordSearch(kw, combined)

\* the test "if kw in combined" of the vague-keyword loop
VagueMatch(kw, combined) == Contains(combined, kw)

\* re.search(r'\b' + re.escape(kw) + r'\b', text, re.IGNORECASE)
WordSearchIgnoreCase(kw, text) == WordSearch(Lower(kw), Lower(text))

\* the indices of SPECIFIC_KEYWORDS that match combined as whole words
LandmarkHits(combined) ==
    {i \in DOMAIN SPECIFIC_KEYWORDS : WordSearchIgnoreCase(SPECIFIC_KEYWORDS[i], combined)}

\* where kw first stands in text as a whole word
FirstPosition(kw, text) ==
    CHOOSE i \in 1..Len(text) :
        /\ SubSeq(text, i, i + Len(kw) - 1) = kw /\ WordBoundary(text, i)
        /\ WordBoundary(text, i + Len(kw))
        /\ \A j \in 1..(i - 1) :
              ~ (/\ SubSeq(text, j, j + Len(kw) - 1) = kw /\ WordBoundary(text, j)
                 /\ WordBoundary(text, j + Len(kw)))

\* a keyword loop that lets the keyword standing first in the text win
FirstHitInText(hits, combined) ==
    CHOOSE i \in hits : \A j \in hits :
        \/ FirstPosition(SPECIFIC_KEYWORDS[i], combined) < FirstPosition(SPECIFIC_KEYWORDS[j], combined)
        \/ (FirstPosition(SPECIFIC_KEYWORDS[i], combined) = FirstPosition(SPECIFIC_KEYWORDS[j], combined)
            /\ i <= j)

\* "for kw in SPECIFIC_KEYWORDS": the loop returns at the first keyword, in
\* the order of the list, that matches
FirstHit(hits, combined) == CHOOSE i \in hits : \A j \in hits : i <= j

\* the character class [\s\w,\.\'-áéíóúñüçê] of the h2 pattern: \'-á is the
\* range U+0027..U+00E1, which holds the ASCII punctuation from ' on, the
\* digits and letters, and the Latin-1 characters up to á
GenericClassPunct == "'()*+,-./:;<=>?@[]^{|}~"
InGenericClass(c) == IsSpace(c) \/ IsWordChar(c) \/ c \in CharSet(GenericClassPunct)

GENERIC_H2_PREFIXES == << "view from", "view of", "view over", "view on", "panoramic view" >>

\* re.match(r"^(view (from|of|over|on)|panoramic view)[...]+$", h2_lower)
H2IsGeneric(h2_lower) ==
    \E k \in DOMAIN GENERIC_H2_PREFIXES :
        LET p == GENERIC_H2_PREFIXES[k] IN
        /\ StartsWith(h2_lower, p)
        /\ Len(h2_lower) > Len(p)
        /\ \A i \in (Len(p) + 1)..Len(h2_lower) : InGenericClass(Char(h2_lower, i))

\* a generic-view test on the subtitle as given
H2AsGiven(subtitle) == subtitle

\* h2_lower = h2.lower()
H2Lower(subtitle) == Lower(subtitle)

\* a default that repeats the pair of the chain's else branch
ElsePair == <<"automatic", 200>>

\* the last return of classify_record
DefaultPair == <<"automatic", 500>>

\* a landmark test that looks for the keywords as substrings
landmark_absent_substring(combined) ==
    ~ \E i \in DOMAIN SPECIFIC_KEYWORDS : Contains(combined, SPECIFIC_KEYWORDS[i])

\* landmark_absent = not any(re.search(r'\b' + re.escape(kw) + r'\b', combined) ...)
landmark_absent(combined) ==
    ~ \E i \in DOMAIN SPECIFIC_KEYWORDS : WordSearch(SPECIFIC_KEYWORDS[i], combined)

classify_record(title, subtitle) ==
    LET combined == Lower(title \o " " \o subtitle)
        hits == LandmarkHits(combined)
        h2_is_generic == H2IsGeneric(H2Lower(subtitle))
    IN IF \E i \in DOMAIN VAGUE_KEYWORDS : VagueMatch(VAGUE_KEYWORDS[i], combined)
       THEN <<"manual", 2500>>
       ELSE IF hits # {} THEN LandmarkPair(SPECIFIC_KEYWORDS[FirstHit(hits, combined)])
       ELSE IF h2_is_generic /\ landmark_absent(combined) THEN <<"manual", 2000>>
       ELSE DefaultPair

-----------------------------------------------------------------------------
(* Inputs of classify_record *)

Join(a, b) == IF a = "" THEN b ELSE IF b = "" THEN a ELSE a \o " " \o b

NumTitleWords == 8
NumSubtitleWords == 5

TitleWords == << "Oslo", "Barcelona", "Skylines", "Northern", "Monument",
                 "BRIDGE", "Stadium", "Nest", "Harbour-View", "Airport" >>
SubtitleWords == << "Oslo", "Lights over Oslo", "the Old Bridge", "Sun & Sea",
                    "Stadium", "Monument", "Valley!" >>
SubtitlePrefixes == << "", "View from", "view of", "View over", "VIEW ON", "Panoramic view of" >>

TitleWordSet == {""} \cup {TitleWords[i] : i \in 1..NumTitleWords}
SubtitleWordSet == {""} \cup {SubtitleWords[i] : i \in 1..NumSubtitleWords}

Titles == {Join(a, b) : a \in TitleWordSet, b \in TitleWordSet}
Subtitles == {Join(SubtitlePrefixes[p], w) : p \in DOMAIN SubtitlePrefixes, w \in SubtitleWordSet}

-----------------------------------------------------------------------------
(* classify_record as a state machine: the arguments, then the call *)

FnIdle == h1 = "" /\ h2 = "" /\ result = <<>>

MainIdle ==
    /\ data = <<>> /\ idx = 0 /\ output_data = <<>>
    /\ stats = [automatic |-> 0, manual |-> 0, filtered |-> 0, already_manual |-> 0]
    /\ skyline_webcams = <<>> /\ mpc = "idle"

RescrapeIdle ==
    /\ webcam_locations = <<>> /\ ci = 0 /\ links_left = 0
    /\ country_records = <<>> /\ rpc = "idle"

CanonIdle == kind = "idle" /\ raw = "" /\ once = <<>> /\ twice = <<>>

WorkersIdle ==
    /\ pass = "idle" /\ transformed = <<>> /\ wct_targets = <<>> /\ results = <<>>
    /\ last = <<>> /\ ending = ""

MergeIdle ==
    /\ earthcams = <<>> /\ webcamtaxi = <<>> /\ combined_json = <<>> /\ runs = 0
    /\ WorkersIdle

GeoIdle ==
    /\ gscript = "idle" /\ gpc = "idle" /\ gpage = <<>> /\ gquery = <<>>
    /\ gqueries = <<>> /\ gresponse = <<>> /\ gresult = <<>> /\ grecord = <<>>
    /\ gcountry = "" /\ glookups = <<>>

YtIdle ==
    /\ yargs = <<>> /\ wct_records = <<>> /\ batch_idx = 0 /\ queue = <<>>
    /\ batch_results = <<>> /\ tasks = <<>> /\ found_count = 0 /\ disk = <<>>
    /\ ypc = "idle" /\ page_users = <<>> /\ fetches = <<>> /\ yt_input = <<>> /\ yt_log = <<>>

ClassifyInit ==
    /\ h1 \in Titles
    /\ h2 \in Subtitles
    /\ result = <<>>
    /\ MainIdle /\ RescrapeIdle /\ CanonIdle /\ MergeIdle /\ GeoIdle /\ YtIdle

ClassifyRecord ==
    /\ result = <<>>
    /\ result' = classify_record(h1, h2)
    /\ UNCHANGED <<h1, h2, mainVars, rescrapeVars, canonVars, mergeVars, geoVars, ytVars>>

ClassifyNext == ClassifyRecord

SpecClassify == ClassifyInit /\ [][ClassifyNext]_vars

-----------------------------------------------------------------------------
(* Properties of classify_record, stated on its arguments and its result *)

\* the maximal runs of word characters of text from position i on; cur is
\* the run being read
RECURSIVE WordRunsFrom(_, _, _)
WordRunsFrom(text, i, cur) ==
    IF i > Len(text) THEN (IF cur = "" THEN {} ELSE {cur})
    ELSE IF IsWordChar(Char(text, i)) THEN WordRunsFrom(text, i + 1, cur \o Char(text, i))
    ELSE (IF cur = "" THEN {} ELSE {cur}) \cup WordRunsFrom(text, i + 1, "")

CombinedText == Lower(h1 \o " " \o h2)
CombinedWords == WordRunsFrom(CombinedText, 1, "")
Classified == result # <<>>

HasVagueKeyword ==
    \E kw \in {"panorama", "panoramic", "skyline", "northern lights", "traffic"} :
        Contains(CombinedText, kw)

\* the landmark groups: the keywords that share a branch, with the branch's
\* pair, in the order of the branches
LandmarkGroups == <<
    [kws |-> {"beach", "playa", "sands", "cove", "bay", "reef"}, pair |-> <<"automatic", 200>>],
    [kws |-> {"plaza", "square", "piazza", "platz", "fountain",
              "monument", "obelisk", "statue", "memorial"}, pair |-> <<"automatic", 100>>],
    [kws |-> {"church", "cathedral", "basilica", "chapel", "mosque", "parish",
              "temple", "shrine", "monastery"}, pair |-> <<"automatic", 100>>],
    [kws |-> {"lighthouse", "faro"}, pair |-> <<"automatic", 50>>],
    [kws |-> {"pier", "dock", "wharf", "marina"}, pair |-> <<"automatic", 150>>],
    [kws |-> {"harbour", "harbor", "port"}, pair |-> <<"automatic", 300>>],
    [kws |-> {"airport", "runway"}, pair |-> <<"automatic", 500>>],
    [kws |-> {"station"}, pair |-> <<"automatic", 200>>],
    [kws |-> {"bridge", "puente"}, pair |-> <<"automatic", 200>>],
    [kws |-> {"tower", "castle", "fortress", "fort"}, pair |-> <<"automatic", 150>>],
    [kws |-> {"park", "garden", "zoo"}, pair |-> <<"automatic", 300>>],
    [kws |-> {"museum", "theater", "theatre", "stadium"}, pair |-> <<"automatic", 200>>],
    [kws |-> {"market", "shop", "restaurant", "bar", "cafe"}, pair |-> <<"automatic", 100>>],
    [kws |-> {"waterfall", "canyon", "cave"}, pair |-> <<"automatic", 300>>],
    [kws |-> {"volcano"}, pair |-> <<"automatic", 500>>],
    [kws |-> {"pool", "resort"}, pair |-> <<"automatic", 200>>],
    [kws |-> {"ski", "slope"}, pair |-> <<"automatic", 500>>],
    [kws |-> {"nest", "cahow", "falcon"}, pair |-> <<"manual", 500>>],
    [kws |-> {"underwater", "coral"}, pair |-> <<"manual", 300>>],
    [kws |-> {"crossing", "road", "street", "avenue", "avenida"}, pair |-> <<"automatic", 200>>],
    [kws |-> {"village", "köyü"}, pair |-> <<"automatic", 500>>],
    [kws |-> {"clock"}, pair |-> <<"automatic", 100>>],
    [kws |-> {"inspection"}, pair |-> <<"manual", 500>> ] >>

AllLandmarkKeywords == UNION {LandmarkGroups[g].kws : g \in DOMAIN LandmarkGroups}

\* the groups of which a keyword stands in the text as a whole word
MatchedGroups == {g \in DOMAIN LandmarkGroups : LandmarkGroups[g].kws \cap CombinedWords # {}}

GroupOf(kw) == CHOOSE g \in DOMAIN LandmarkGroups : kw \in LandmarkGroups[g].kws

\* the first keyword of SPECIFIC_KEYWORDS, in list order, that is a word of the text
FirstMatchedKeyword ==
    SPECIFIC_KEYWORDS[CHOOSE i \in DOMAIN SPECIFIC_KEYWORDS :
        /\ SPECIFIC_KEYWORDS[i] \in CombinedWords
        /\ \A j \in 1..(i - 1) : SPECIFIC_KEYWORDS[j] \notin CombinedWords]

\* C1: a text that contains a vague keyword is classified (manual, 2500),
\* whatever landmark keywords it also contains
C1_VagueDominates ==
    (Classified /\ HasVagueKeyword) => result = <<"manual", 2500>>

C1_Witness ==
    /\ Classified /\ HasVagueKeyword /\ MatchedGroups # {}
    /\ result = <<"manual", 2500>>

\* C2: a text with no vague keyword whose whole-word keywords all belong to
\* one landmark group gets that group's pair; "Stadium" gets (automatic, 200)
C2_SingleGroupPair ==
    /\ (Classified /\ ~HasVagueKeyword /\ Cardinality(MatchedGroups) = 1)
          => \A g \in MatchedGroups : result = LandmarkGroups[g].pair
    /\ (Classified /\ h1 = "Stadium" /\ h2 = "") => result = <<"automatic", 200>>

C2_Witness ==
    /\ Classified /\ h1 = "Barcelona Nest" /\ h2 = "View from Oslo"
    /\ MatchedGroups = {GroupOf("nest")}
    /\ result = <<"manual", 500>>

\* the result does not change when two matched keywords trade places, in the
\* title or between title and subtitle
OrderIndependent ==
    \A a, b \in TitleWordSet :
        (Lower(a) \in AllLandmarkKeywords /\ Lower(b) \in AllLandmarkKeywords) =>
            /\ h1 = Join(a, b) => classify_record(Join(b, a), h2) = result
            /\ (h1 = a /\ h2 = b) => classify_record(b, a) = result

ViewPrefixes == {"view from ", "view of ", "view over ", "view on "}
HasViewShape == \E p \in ViewPrefixes : StartsWith(Lower(h2), p) /\ Len(h2) > Len(p)
ViewRest == LET p == CHOOSE q \in ViewPrefixes : StartsWith(Lower(h2), q)
            IN CharSet(SubSeq(Lower(h2), Len(p) + 1, Len(h2)))

\* C4 as stated: no vague keyword, no landmark keyword and a subtitle of the
\* shape "view from/of/over/on X" give (manual, 2000)
C4_ViewShapeManual ==
    (Classified /\ ~HasVagueKeyword /\ MatchedGroups = {} /\ HasViewShape)
        => result = <<"manual", 2000>>

\* C4 amended: the same, for an X made only of whitespace, word characters and
\* the punctuation of the pattern's character class (not & ! " # $ %)
C4_ViewShapeInClassManual ==
    (/\ Classified /\ ~HasVagueKeyword /\ MatchedGroups = {} /\ HasViewShape
     /\ \A c \in ViewRest : InGenericClass(c))
        => result = <<"manual", 2000>>

C4_Witness ==
    /\ Classified /\ h1 = "Oslo" /\ h2 = "VIEW ON Lights over Oslo"
    /\ result = <<"manual", 2000>>

\* C5: every title and subtitle, the empty ones included, get one pair of a
\* tag and a radius; with no vague keyword, no landmark keyword and no
\* generic-view subtitle the pair is (automatic, 500)
C5_TotalWithDefault ==
    Classified =>
        /\ Len(result) = 2
        /\ result[1] \in {"automatic", "manual"}
        /\ result[2] \in 1..2500
        /\ (~HasVagueKeyword /\ MatchedGroups = {} /\ ~H2IsGeneric(Lower(h2)))
              => result = <<"automatic", 500>>

C5_Witness ==
    /\ Classified /\ h1 = "" /\ h2 = ""
    /\ result = <<"automatic", 500>>

\* classify_record went past its two keyword loops, to the generic-view check
ReachedGenericCheck ==
    /\ Classified
    /\ ~ \E i \in DOMAIN VAGUE_KEYWORDS : VagueMatch(VAGUE_KEYWORDS[i], CombinedText)
    /\ LandmarkHits(CombinedText) = {}

\* the lowercased subtitle matches the pattern by its alternative
\* view (from|of|over|on), or by its alternative panoramic view
MatchesAlternative(prefixes) ==
    \E k \in prefixes :
        /\ StartsWith(Lower(h2), GENERIC_H2_PREFIXES[k])
        /\ Len(h2) > Len(GENERIC_H2_PREFIXES[k])
        /\ \A i \in (Len(GENERIC_H2_PREFIXES[k]) + 1)..Len(h2) :
              InGenericClass(Char(Lower(h2), i))

\* the pair of a keyword for which the chain would take its last else
NoBranch == <<"else", 0>>

\* C30: whenever classify_record reaches the generic-view check, the
\* landmark_absent test is true and the text holds no "panoramic"; (manual,
\* 2000) is returned exactly when the check is reached with a subtitle that
\* matches the view from/of/over/on alternative; the panoramic view alternative
\* never matches there; and no keyword of SPECIFIC_KEYWORDS takes the last else
\* of the radius chain.
C30_GenericCheck ==
    /\ ReachedGenericCheck =>
          /\ landmark_absent(CombinedText)
          /\ ~Contains(CombinedText, "panoramic")
          /\ ~MatchesAlternative({5})
    /\ Classified =>
          (result = <<"manual", 2000>> <=> (ReachedGenericCheck /\ MatchesAlternative(1..4)))
    /\ \A i \in DOMAIN SPECIFIC_KEYWORDS : LandmarkChain(SPECIFIC_KEYWORDS[i], NoBranch) # NoBranch

\* the check is reached with a title that holds a keyword inside a word, and
\* decides (manual, 2000)
C30_Witness ==
    /\ ReachedGenericCheck /\ MatchesAlternative(1..4)
    /\ ~landmark_absent_substring(CombinedText)
    /\ result = <<"manual", 2000>>
-----------------------------------------------------------------------------
(* classify_records.py: estimate_radius_for_manual and main *)

\* a radius estimate that tests the city-level keywords first
estimate_radius_city_first(title, subtitle) ==
    LET combined == Lower(title \o " " \o subtitle) IN
    IF \E kw \in {"panorama", "panoramic", "skyline"} : Contains(combined, kw) THEN 2500
    ELSE IF \E kw \in {"beach", "playa", "plaza", "square", "pier", "lighthouse"} :
                Contains(combined, kw) THEN 200
    ELSE IF Contains(combined, "traffic") THEN 500
    ELSE 1500

estimate_radius_for_manual(title, subtitle) ==
    LET combined == Lower(title \o " " \o subtitle) IN
    IF \E kw \in {"beach", "playa", "plaza", "square", "pier", "lighthouse"} :
           Contains(combined, kw) THEN 200
    ELSE IF \E kw \in {"panorama", "panoramic", "skyline"} : Contains(combined, kw) THEN 2500
    ELSE IF Contains(combined, "traffic") THEN 500
    ELSE 1500

\* record[:n]
Take(record, n) == SubSeq(record, 1, IF Len(record) < n THEN Len(record) ELSE n)

\* h1 = record[0] if len(record) > 0 else "", and h2 likewise
RecordH1(record) == IF Len(record) > 0 THEN record[1] ELSE ""
RecordH2(record) == IF Len(record) > 1 THEN record[2] ELSE ""

\* h1.lower().startswith("live cams in") or h1.lower().startswith("liva cams in")
IsIndexPageTitle(title) ==
    StartsWith(Lower(title), "live cams in") \/ StartsWith(Lower(title), "liva cams in")

\* len(record) >= 4 and record[3] == "manual"
AlreadyManual(record) == Len(record) >= 4 /\ record[4] = "manual"

\* the record the already-manual branch appends
ManualRecord(record) ==
    IF Len(record) < 5
    THEN Take(record, 4) \o << <<estimate_radius_for_manual(RecordH1(record), RecordH2(record))>> >>
    ELSE record

\* the record the classifying branch appends: record[:3] + [tag, radius]
ClassifiedRecord(record) ==
    LET cr == classify_record(RecordH1(record), RecordH2(record))
    IN Take(record, 3) \o << cr[1], <<cr[2]>> >>

\* The records of skyline_webcams.json: [h1, h2, url], then the tag and the
\* radius once classified or tagged by hand.  The radius is <<n>>, or <<>> for
\* a JSON null.
MaxRecords == 2

RecordTexts == {
    <<"Live Cams in Norway", "">>,
    <<"LIVA CAMS IN Italy", "View from Oslo">>,
    <<"Pierre Skyline", "">>,
    <<"Oslo Panorama", "View from Oslo">>,
    <<"Traffic Oslo", "">>,
    <<"Oslo", "View from Oslo">>,
    <<"Oslo", "">> }

\* the records of skyline_webcams.json: [h1, h2, url] as the scraper writes
\* them, with a tag and a radius after an earlier run or a manual review, and
\* one with a further field that main does not know
InputRecords ==
    {<<t[1], t[2], "url">> : t \in RecordTexts}
    \cup {<<t[1], t[2], "url", "manual">> : t \in RecordTexts}
    \cup {<<t[1], t[2], "url", "manual", <<300>> >> : t \in RecordTexts}
    \cup {<<"Oslo", "", "url", "manual", <<9999>> >>,
          <<"Oslo", "", "url", "manual", <<>> >>,
          <<"Oslo Stadium", "", "url", "automatic", <<50>> >>,
          <<"Oslo Stadium", "", "url", "automatic", <<50>>, "reviewed by hand" >>}

Datasets == UNION {[1..n -> InputRecords] : n \in 0..MaxRecords}

MainInit ==
    /\ data \in Datasets
    /\ skyline_webcams = data
    /\ idx = 0
    /\ output_data = <<>>
    /\ stats = [automatic |-> 0, manual |-> 0, filtered |-> 0, already_manual |-> 0]
    /\ mpc = "loop"
    /\ FnIdle /\ RescrapeIdle /\ CanonIdle /\ MergeIdle /\ GeoIdle /\ YtIdle

\* one turn of "for record in records"
ProcessRecord ==
    /\ mpc = "loop"
    /\ idx < Len(data)
    /\ LET record == data[idx + 1] IN
       IF IsIndexPageTitle(RecordH1(record))
       THEN /\ stats' = [stats EXCEPT !.filtered = @ + 1]
            /\ UNCHANGED output_data
       ELSE IF AlreadyManual(record)
       THEN /\ stats' = [stats EXCEPT !.already_manual = @ + 1]
            /\ output_data' = Append(output_data, ManualRecord(record))
       ELSE /\ stats' = [stats EXCEPT
                          ![classify_record(RecordH1(record), RecordH2(record))[1]] = @ + 1]
            /\ output_data' = Append(output_data, ClassifiedRecord(record))
    /\ idx' = idx + 1
    /\ UNCHANGED <<data, skyline_webcams, mpc, fnVars, rescrapeVars, canonVars, mergeVars, geoVars, ytVars>>

\* json.dump(output_data) over the input file, after the loop
WriteOutput ==
    /\ mpc = "loop"
    /\ idx = Len(data)
    /\ skyline_webcams' = output_data
    /\ mpc' = "done"
    /\ UNCHANGED <<data, idx, output_data, stats, fnVars, rescrapeVars, canonVars, mergeVars, geoVars, ytVars>>

MainNext == ProcessRecord \/ WriteOutput

SpecMain == MainInit /\ [][MainNext]_vars

-----------------------------------------------------------------------------
(* rescrape_regional.py *)

\* the keys of COUNTRY_MAPPING, in the order main walks them
COUNTRY_MAPPING_KEYS == << "Brazil", "Croatia", "Germany", "Greece", "Italy", "Norway",
                          "Republic of San Marino", "Slovenia", "Spain", "Switzerland" >>

\* the en dash of the source ("\u2013") is outside the alphabet of the model
STOPWORDS == {"skylinewebcams", "cam", "cams", "live", "in", "-", "|"}

\* str.split(): the maximal runs of non-whitespace, in order
RECURSIVE SplitFrom(_, _, _)
SplitFrom(text, i, cur) ==
    IF i > Len(text) THEN (IF cur = "" THEN <<>> ELSE <<cur>>)
    ELSE IF IsSpace(Char(text, i))
         THEN (IF cur = "" THEN <<>> ELSE <<cur>>) \o SplitFrom(text, i + 1, "")
         ELSE SplitFrom(text, i + 1, cur \o Char(text, i))

\* word.replace(c, "")
RECURSIVE RemoveChar(_, _)
RemoveChar(word, c) ==
    IF word = "" THEN ""
    ELSE (IF Char(word, 1) = c THEN "" ELSE Char(word, 1)) \o RemoveChar(Tail(word), c)

RECURSIVE KeepCleaned(_)
KeepCleaned(words) ==
    IF words = <<>> THEN <<>>
    ELSE LET word == RemoveChar(Head(words), "-")
         IN (IF word # "" /\ word \notin STOPWORDS THEN <<word>> ELSE <<>>)
            \o KeepCleaned(Tail(words))

clean_words(text) == IF text = "" THEN <<>> ELSE KeepCleaned(SplitFrom(Lower(text), 1, ""))

\* the words of h1_words that are in h2_words, each once, in the order of h1_words
RECURSIVE CommonWords(_, _, _)
CommonWords(h1_words, h2_set, seen) ==
    IF h1_words = <<>> THEN <<>>
    ELSE LET word == Head(h1_words) IN
         IF word \in h2_set /\ word \notin seen
         THEN <<word>> \o CommonWords(Tail(h1_words), h2_set, seen \cup {word})
         ELSE CommonWords(Tail(h1_words), h2_set, seen)

\* " ".join(words)
RECURSIVE JoinWords(_)
JoinWords(words) ==
    IF words = <<>> THEN ""
    ELSE IF Len(words) = 1 THEN Head(words)
    ELSE Head(words) \o " " \o JoinWords(Tail(words))

\* the query as <<q>>, or <<>> for None
extract_search_query(title, subtitle) ==
    LET h1_words == clean_words(title)
        h2_words == clean_words(subtitle)
        common == CommonWords(h1_words, {h2_words[i] : i \in DOMAIN h2_words}, {})
    IN IF h1_words = <<>> \/ h2_words = <<>> THEN <<>>
       ELSE IF common = <<>> THEN <<>>
       ELSE <<JoinWords(common)>>

\* what scrape_feed_page returns: (h1, h2, final_url); ("", "", feed_url)
\* when the page cannot be fetched
ScrapedPages == {
    <<"", "", "feed">>,
    <<"Live Cams in Brazil", "", "feed">>,
    <<"Porto Seguro - Praia de Taperapuan Live cam", "Praia de Taperapuan, Porto Seguro",
      "https://www.youtube.com/watch?v=abc">> }

\* what geocode_query returns: None, or the first candidate's location with
\* is_area (whole degrees stand for the coordinates)
GeocodeOutcomes == {
    <<>>,
    << [lat |-> -16, lng |-> -39, is_area |-> TRUE] >>,
    << [lat |-> -16, lng |-> -39, is_area |-> FALSE] >> }

\* the record main builds from a scraped page and the geocoding outcome
RescrapedRecord(page, geo) ==
    LET query == extract_search_query(page[1], page[2])
        found == query # <<>> /\ geo # <<>>
    IN [title |-> page[1], subtitle |-> page[2], url |-> page[3],
        mode |-> IF found /\ geo[1].is_area THEN "manual" ELSE "automatic",
        radius |-> <<200>>,
        latitude |-> IF found THEN <<geo[1].lat>> ELSE <<>>,
        longitude |-> IF found THEN <<geo[1].lng>> ELSE <<>>,
        verified |-> <<found /\ ~geo[1].is_area>>]

NumRescrapeCountries == 1
MaxLinks == 2

\* a record of webcam_locations.json as earlier runs left it
ExistingRecord ==
    [title |-> "Oslo - Opera House Live cam", subtitle |-> "View from Oslo", url |-> "feed",
     mode |-> "automatic", radius |-> <<200>>, latitude |-> <<59>>, longitude |-> <<10>>,
     verified |-> <<TRUE>>]

RescrapeInit ==
    /\ webcam_locations \in {[c \in {"Brazil", "Norway"} |-> <<ExistingRecord>>],
                             [c \in {"Norway"} |-> <<ExistingRecord>>],
                             [c \in {"Croatia"} |-> <<>>],
                             [c \in {} |-> <<>>]}
    /\ ci = 0
    /\ links_left = 0
    /\ country_records = <<>>
    /\ rpc = "country"
    /\ FnIdle /\ MainIdle /\ CanonIdle /\ MergeIdle /\ GeoIdle /\ YtIdle

\* the country page is not fetched (status not 200, no list container, or an
\* exception): main goes on with the next country, the file is not touched
CountryPageFails ==
    /\ rpc = "country"
    /\ ci < NumRescrapeCountries
    /\ ci' = ci + 1
    /\ UNCHANGED <<webcam_locations, links_left, country_records, rpc, fnVars, mainVars, canonVars, mergeVars, geoVars, ytVars>>

\* the country page lists n links
CountryPageListed ==
    /\ rpc = "country"
    /\ ci < NumRescrapeCountries
    /\ \E n \in 0..MaxLinks : links_left' = n
    /\ country_records' = <<>>
    /\ rpc' = "links"
    /\ UNCHANGED <<webcam_locations, ci, fnVars, mainVars, canonVars, mergeVars, geoVars, ytVars>>

\* one turn of "for i, link in enumerate(links)"
ScrapeFeed ==
    /\ rpc = "links"
    /\ links_left > 0
    /\ \E page \in ScrapedPages :
         IF page[1] = ""
         THEN UNCHANGED country_records
         ELSE \E geo \in (IF extract_search_query(page[1], page[2]) = <<>>
                           THEN {<<>>} ELSE GeocodeOutcomes) :
                 country_records' = Append(country_records, RescrapedRecord(page, geo))
    /\ links_left' = links_left - 1
    /\ UNCHANGED <<webcam_locations, ci, rpc, fnVars, mainVars, canonVars, mergeVars, geoVars, ytVars>>

\* data[english_name] = country_records, and the intermediate save
SaveCountry ==
    /\ rpc = "links"
    /\ links_left = 0
    /\ LET english_name == COUNTRY_MAPPING_KEYS[ci + 1] IN
       webcam_locations' =
           [c \in DOMAIN webcam_locations \cup {english_name} |->
               IF c = english_name THEN country_records ELSE webcam_locations[c]]
    /\ ci' = ci + 1
    /\ rpc' = "country"
    /\ UNCHANGED <<links_left, country_records, fnVars, mainVars, canonVars, mergeVars, geoVars, ytVars>>

RescrapeNext == CountryPageFails \/ CountryPageListed \/ ScrapeFeed \/ SaveCountry

SpecRescrape == RescrapeInit /\ [][RescrapeNext]_vars

-----------------------------------------------------------------------------
(* Country canonicalization: merge_webcams.py and merge_webcamtaxi.py *)

\* a dict literal as its items, and dict.get(key, default)
DictKeys(items) == {items[i][1] : i \in DOMAIN items}
DictGet(items, key, default) ==
    IF key \in DictKeys(items)
    THEN items[CHOOSE i \in DOMAIN items : items[i][1] = key][2]
    ELSE default

COUNTRY_ALIASES == <<
    <<"England", "United Kingdom">>,
    <<"Wales", "United Kingdom">>,
    <<"Scotland", "United Kingdom">>,
    <<"Great Britain", "United Kingdom">>,
    <<"Bosnia And Herzegovina", "Bosnia and Herzegovina">>,
    <<"Bosnia-Herzegovina", "Bosnia and Herzegovina">>,
    <<"Turkiye", "Turkey">>,
    <<"Russian Federation", "Russia">>,
    <<"Slovak Republic", "Slovakia">>,
    <<"Virgin Islands, U.S.", "US Virgin Islands">>,
    <<"Virgin Islands, British", "British Virgin Islands">> >>

\* str.strip() leaves nothing
IsBlank(text) == \A i \in 1..Len(text) : IsSpace(Char(text, i))

resolve_country(raw_country) ==
    IF raw_country = "" \/ IsBlank(raw_country) THEN "Unknown"
    ELSE DictGet(COUNTRY_ALIASES, raw_country, raw_country)

COUNTRY_SLUG_MAP == <<
    <<"england", "United Kingdom">>,
    <<"scotland", "United Kingdom">>,
    <<"wales", "United Kingdom">>,
    <<"usa", "United States">>,
    <<"czech-republic", "Czech Republic">>,
    <<"bosnia-herzegovina", "Bosnia and Herzegovina">>,
    <<"virgin-islands", "British Virgin Islands">>,
    <<"saint-barthelemy", "Saint Barthelemy">>,
    <<"saint-martin", "Sint Maarten">>,
    <<"united-arab-emirates", "United Arab Emirates">>,
    <<"south-africa", "South Africa">>,
    <<"south-korea", "South Korea">>,
    <<"new-zealand", "New Zealand">>,
    <<"north-macedonia", "North Macedonia">>,
    <<"french-polynesia", "French Polynesia">>,
    <<"costa-rica", "Costa Rica">>,
    <<"dominican-republic", "Dominican Republic">>,
    <<"el-salvador", "El Salvador">>,
    <<"dr-congo", "DR Congo">>,
    <<"saudi-arabia", "Saudi Arabia">>,
    <<"cape-verde", "Cape Verde">>,
    <<"cayman-islands", "Cayman Islands">>,
    <<"anguilla-island", "Anguilla">>,
    <<"turks-and-caicos-islands", "Turks And Caicos Islands">>,
    <<"bailiwick-of-jersey", "Jersey">> >>

\* text.replace(old, new) for single characters
RECURSIVE ReplaceChar(_, _, _)
ReplaceChar(text, old, new) ==
    IF text = "" THEN ""
    ELSE (IF Char(text, 1) = old THEN new ELSE Char(text, 1))
         \o ReplaceChar(Tail(text), old, new)

\* str.title(): a letter after a letter is lowercased, any other letter is
\* uppercased, the other characters are kept
RECURSIVE TitleFrom(_, _)
TitleFrom(text, after_letter) ==
    IF text = "" THEN ""
    ELSE LET c == Char(text, 1)
             is_letter == c \in UpperSet \cup LowerSet
         IN (IF ~is_letter THEN c
             ELSE IF after_letter THEN LowerChar(c) ELSE UpperChar(c))
            \o TitleFrom(Tail(text), is_letter)

Title(text) == TitleFrom(text, FALSE)

slug_to_country(slug) ==
    IF slug \in DictKeys(COUNTRY_SLUG_MAP) THEN DictGet(COUNTRY_SLUG_MAP, slug, slug)
    ELSE Title(ReplaceChar(slug, "-", " "))

\* the country labels of EarthCam places
RawLabels ==
    DictKeys(COUNTRY_ALIASES)
    \cup {COUNTRY_ALIASES[i][2] : i \in DOMAIN COUNTRY_ALIASES}
    \cup {"", " ", "Unknown", "Norway", "Isle of Man", "england", "USA",
          "Turks and Caicos Islands", "DR Congo", "Guinea-Bissau"}

\* the country slugs of WebcamTaxi paths
RawSlugs ==
    DictKeys(COUNTRY_SLUG_MAP)
    \cup {"norway", "italy", "isle-of-man", "united-kingdom", "unknown", "great-britain",
          "bosnia-and-herzegovina", "guinea-bissau", "turkiye", "russia"}

CanonInit ==
    /\ \/ kind = "label" /\ raw \in RawLabels
       \/ kind = "slug" /\ raw \in RawSlugs
    /\ once = <<>>
    /\ twice = <<>>
    /\ FnIdle /\ MainIdle /\ RescrapeIdle /\ MergeIdle /\ GeoIdle /\ YtIdle

\* the canonicalizer of the kind
Canonical(k, name) == IF k = "label" THEN resolve_country(name) ELSE slug_to_country(name)

Canonicalize ==
    /\ kind \in {"label", "slug"}
    /\ once = <<>>
    /\ once' = <<Canonical(kind, raw)>>
    /\ UNCHANGED <<kind, raw, twice, fnVars, mainVars, rescrapeVars, mergeVars, geoVars, ytVars>>

Recanonicalize ==
    /\ once # <<>>
    /\ twice = <<>>
    /\ twice' = <<Canonical(kind, once[1])>>
    /\ UNCHANGED <<kind, raw, once, fnVars, mainVars, rescrapeVars, mergeVars, geoVars, ytVars>>

CanonNext == Canonicalize \/ Recanonicalize

SpecCanon == CanonInit /\ [][CanonNext]_vars

-----------------------------------------------------------------------------
(* merge_webcams.main and merge_webcamtaxi.main *)

VERIFIED_RADIUS == 10
UNVERIFIED_RADIUS == 200

\* text.replace("\\/", "/"); the texts of the model hold no HTML entity for
\* html.unescape to replace
RECURSIVE unescape_text(_)
unescape_text(text) ==
    IF text = "" THEN ""
    ELSE IF StartsWith(text, "\\/") THEN "/" \o unescape_text(SubSeq(text, 3, Len(text)))
    ELSE Char(text, 1) \o unescape_text(Tail(text))

\* text.strip(c)
RECURSIVE StripChar(_, _)
StripChar(text, c) ==
    IF text = "" THEN ""
    ELSE IF Char(text, 1) = c THEN StripChar(Tail(text), c)
    ELSE IF Char(text, Len(text)) = c THEN StripChar(SubSeq(text, 1, Len(text) - 1), c)
    ELSE text

\* text.split(c): the parts between the separators, empty ones included
RECURSIVE SplitChar(_, _, _)
SplitChar(text, c, cur) ==
    IF text = "" THEN <<cur>>
    ELSE IF Char(text, 1) = c THEN <<cur>> \o SplitChar(Tail(text), c, "")
    ELSE SplitChar(Tail(text), c, cur \o Char(text, 1))

PathParts(url_path) == SplitChar(StripChar(url_path, "/"), "/", "")

\* country_slug = parts[1] if len(parts) >= 3 else "unknown"
CountrySlug(url_path) ==
    IF Len(PathParts(url_path)) >= 3 THEN PathParts(url_path)[2] ELSE "unknown"

extract_subregion(url_path) ==
    IF Len(PathParts(url_path)) >= 3
    THEN <<Title(ReplaceChar(PathParts(url_path)[3], "-", " "))>>
    ELSE <<>>

\* rec["source"] = "SLW"; rec["subregion"] = None
EnrichSLW(rec) ==
    [k \in DOMAIN rec \cup {"source", "subregion"} |->
        IF k = "source" THEN "SLW" ELSE IF k = "subregion" THEN <<>> ELSE rec[k]]

\* the record of an EarthCam place, before verification
PlaceRecord(ec) ==
    [title |-> ec.name, subtitle |-> ec.location, url |-> unescape_text(ec.url),
     mode |-> "automatic", radius |-> <<>>,
     latitude |-> <<ec.posn[1]>>, longitude |-> <<ec.posn[2]>>,
     verified |-> <<>>, source |-> "EW", subregion |-> ec.city]

\* rec["verified"] = ok; rec["radius"] = VERIFIED_RADIUS if ok else UNVERIFIED_RADIUS
ApplyVerification(rec, ok) ==
    [rec EXCEPT !.verified = <<ok>>,
                !.radius = <<IF ok THEN VERIFIED_RADIUS ELSE UNVERIFIED_RADIUS>>]

BASE_URL == "https://www.webcamtaxi.com"

\* the record of a WebcamTaxi feature with the result (iframe_url, success) of
\* fetch_iframe_url applied; GeoJSON coordinates are [lng, lat], and whole
\* degrees are their own truncation
FeatureRecord(feat, fetched) ==
    LET raw_url_path == unescape_text(feat.url)
        ok == fetched[2] /\ fetched[1] # <<>> /\ fetched[1] # <<"">>
    IN [title |-> unescape_text(feat.name), subtitle |-> "",
        url |-> IF ok THEN fetched[1][1] ELSE BASE_URL \o raw_url_path,
        mode |-> "automatic",
        radius |-> <<IF ok THEN VERIFIED_RADIUS ELSE UNVERIFIED_RADIUS>>,
        latitude |-> <<feat.coordinates[2]>>, longitude |-> <<feat.coordinates[1]>>,
        verified |-> <<ok>>, source |-> "WCT",
        subregion |-> extract_subregion(raw_url_path)]

\* for country, rec in transformed: combined[country].append(rec), the bucket
\* created when the country is new
RECURSIVE AddRecords(_, _)
AddRecords(buckets, pairs) ==
    IF pairs = <<>> THEN buckets
    ELSE LET country == pairs[1][1]
             rec == pairs[1][2]
             old == IF country \in DOMAIN buckets THEN buckets[country] ELSE <<>>
         IN AddRecords([c \in DOMAIN buckets \cup {country} |->
                           IF c = country THEN Append(old, rec) ELSE buckets[c]],
                       Tail(pairs))

\* what fetch_iframe_url returns: (None, False) or (iframe_src, True)
FetchOutcomes == { << <<>>, FALSE >>, << <<"https://www.youtube.com/embed/live">>, TRUE >> }

Place(name, location, country, city, lat, lng) ==
    [name |-> name, location |-> location, url |-> "https:\\/\\/www.earthcam.com\\/" \o name,
     country |-> country, city |-> <<city>>, posn |-> <<lat, lng>>]

Feature(name, url, lng, lat) == [name |-> name, url |-> url, coordinates |-> <<lng, lat>>]

\* the places of earthcams.json
EarthcamFiles == {
    <<>>,
    << Place("douglas", "Douglas Bay", "Isle of Man", "Douglas", 54, -4) >>,
    << Place("london", "Abbey Road", "England", "London", 51, 0),
       Place("oslo", "Oslo Harbour", "Norway", "Oslo", 59, 10) >>,
    << Place("nowhere", "", "", "", 0, 0) >> }

\* the features of webcamtaxi.json
WebcamtaxiFiles == {
    <<>>,
    << Feature("Douglas Promenade", "/en/isle-of-man/douglas/promenade.html", -4, 54) >>,
    << Feature("Tower Bridge", "/en/england/london/tower-bridge.html", 0, 51),
       Feature("Search", "/en/component/search/results.html", 0, 0) >>,
    << Feature("Oslo Harbour", "\\/en\\/norway\\/oslo\\/harbour.html", 10, 59),
       Feature("Map", "/en/map.html", 0, 0) >> }

MaxMergeRuns == 3

MergeInit ==
    /\ webcam_locations \in {[c \in {"Norway"} |-> <<ExistingRecord>>], [c \in {} |-> <<>>]}
    /\ earthcams \in EarthcamFiles
    /\ webcamtaxi \in WebcamtaxiFiles
    /\ combined_json = <<>>
    /\ runs = 0
    /\ WorkersIdle
    /\ ci = 0 /\ links_left = 0 /\ country_records = <<>> /\ rpc = "idle"
    /\ FnIdle /\ MainIdle /\ CanonIdle /\ GeoIdle /\ YtIdle

\* what a request meets: an HTTP response with a status and, in its text, the
\* src of a first iframe or none; a timeout; another transport error
IframeSrc == "https://www.youtube.com/embed/live"
Responses == {
    [kind |-> "response", status |-> 200, iframe |-> <<IframeSrc>>],
    [kind |-> "response", status |-> 200, iframe |-> <<>>],
    [kind |-> "response", status |-> 404, iframe |-> <<>>],
    [kind |-> "timeout", status |-> 0, iframe |-> <<>>],
    [kind |-> "error", status |-> 0, iframe |-> <<>>] }

\* merge_webcams.verify_url: True if the url responds with HTTP 200
verify_url(resp) == resp.kind = "response" /\ resp.status = 200

\* merge_webcamtaxi.fetch_iframe_url: (iframe_src or None, success)
fetch_iframe_url(resp) ==
    IF resp.kind = "response" /\ resp.status = 200 /\ resp.iframe # <<>>
    THEN <<<<unescape_text(resp.iframe[1])>>, TRUE>>
    ELSE <<<<>>, FALSE>>

\* the futures are all done
AllDone == \A i \in DOMAIN results : results[i] # <<>>

\* the number of records of the buckets
RECURSIVE TotalRecords(_)
TotalRecords(buckets) ==
    IF DOMAIN buckets = {} THEN 0
    ELSE LET c == CHOOSE c \in DOMAIN buckets : TRUE
         IN Len(buckets[c]) + TotalRecords([d \in DOMAIN buckets \ {c} |-> buckets[d]])

\* the statistics of the merges divide by the number of records
StatisticsEnding(buckets) ==
    IF TotalRecords(buckets) = 0 THEN "ZeroDivisionError" ELSE "summary"

\* the results read from the other end of the list
ResultAtMirrored(i) == results[Len(results) + 1 - i][1]

\* the results of the futures, by the index they were submitted with
ResultAt(i) == results[i][1]

\* merge_webcams.main up to the submission of the futures
StartMergeWebcams ==
    /\ pass = "idle"
    /\ runs < MaxMergeRuns
    /\ pass' = "merge_webcams"
    /\ transformed' = [i \in DOMAIN earthcams |->
                         <<resolve_country(earthcams[i].country), PlaceRecord(earthcams[i])>>]
    /\ results' = [i \in DOMAIN earthcams |-> <<>>]
    /\ UNCHANGED <<earthcams, webcamtaxi, combined_json, runs, wct_targets, last, ending,
                   fnVars, mainVars, rescrapeVars, canonVars, geoVars, ytVars>>

\* a future of the executor completes, in any order: results[idx] = future.result()
CompleteFuture ==
    /\ pass \in {"merge_webcams", "merge_webcamtaxi"}
    /\ \E i \in DOMAIN results :
         /\ results[i] = <<>>
         /\ \E resp \in Responses :
              results' = [results EXCEPT ![i] =
                  << IF pass = "merge_webcams" THEN verify_url(resp)
                     ELSE fetch_iframe_url(resp) >>]
    /\ UNCHANGED <<earthcams, webcamtaxi, combined_json, runs, pass, transformed,
                   wct_targets, last, ending, fnVars, mainVars, rescrapeVars, canonVars, geoVars, ytVars>>

\* merge_webcams.main from "Apply verification results": combined.json is
\* built from webcam_locations.json and the EarthCam records, then the
\* statistics are printed
FinishMergeWebcams ==
    /\ pass = "merge_webcams"
    /\ AllDone
    /\ LET verified_records ==
               [i \in DOMAIN transformed |->
                   <<transformed[i][1], ApplyVerification(transformed[i][2], ResultAt(i))>>]
           wl_data ==
               [c \in DOMAIN webcam_locations |->
                   [i \in DOMAIN webcam_locations[c] |-> EnrichSLW(webcam_locations[c][i])]]
           combined == AddRecords(wl_data, verified_records)
       IN /\ combined_json' = <<combined>>
          /\ ending' = StatisticsEnding(combined)
    /\ last' = <<pass, transformed, results>>
    /\ pass' = "idle" /\ transformed' = <<>> /\ results' = <<>>
    /\ runs' = runs + 1
    /\ UNCHANGED <<earthcams, webcamtaxi, wct_targets, fnVars, mainVars, rescrapeVars, canonVars, geoVars, ytVars>>

\* the features main does not skip
RECURSIVE KeptFeatures(_)
KeptFeatures(features) ==
    IF features = <<>> THEN <<>>
    ELSE (IF CountrySlug(unescape_text(Head(features).url)) = "component"
          THEN <<>> ELSE <<Head(features)>>) \o KeptFeatures(Tail(features))

\* merge_webcamtaxi.main up to the submission of the futures; the fields
\* _page_url and _fallback_url of a record are BASE_URL + raw_url_path both
StartMergeWebcamtaxi ==
    /\ pass = "idle"
    /\ runs < MaxMergeRuns
    /\ combined_json # <<>>
    /\ pass' = "merge_webcamtaxi"
    /\ LET kept == KeptFeatures(webcamtaxi) IN
       /\ transformed' = [i \in DOMAIN kept |->
                            <<slug_to_country(CountrySlug(unescape_text(kept[i].url))), kept[i]>>]
       /\ results' = [i \in DOMAIN kept |-> <<>>]
    /\ UNCHANGED <<earthcams, webcamtaxi, combined_json, runs, wct_targets, last, ending,
                   fnVars, mainVars, rescrapeVars, canonVars, geoVars, ytVars>>

\* merge_webcamtaxi.main from "Apply results": the WebcamTaxi records are
\* appended to the buckets of combined.json, which is written back in place,
\* then the statistics are printed
FinishMergeWebcamtaxi ==
    /\ pass = "merge_webcamtaxi"
    /\ AllDone
    /\ LET records == [i \in DOMAIN transformed |->
                          <<transformed[i][1], FeatureRecord(transformed[i][2], ResultAt(i))>>]
           combined == AddRecords(combined_json[1], records)
       IN /\ combined_json' = <<combined>>
          /\ ending' = StatisticsEnding(combined)
    /\ last' = <<pass, transformed, results>>
    /\ pass' = "idle" /\ transformed' = <<>> /\ results' = <<>>
    /\ runs' = runs + 1
    /\ UNCHANGED <<earthcams, webcamtaxi, wct_targets, fnVars, mainVars, rescrapeVars, canonVars, geoVars, ytVars>>

IsUnverifiedRecord(rec) == rec.verified = <<FALSE>>
IsWctRecord(rec) == rec.source = "WCT"

\* rec.get("source") == "WCT" and rec.get("verified") is False
IsRetryTarget(rec) == rec.source = "WCT" /\ rec.verified = <<FALSE>>

\* "youtube.com" in url or "youtu.be" in url
IsYoutubeUrl(url) == Contains(url, "youtube.com") \/ Contains(url, "youtu.be")

\* rec.get("source") == "WCT" and its url is not a YouTube url yet
IsYoutubeTarget(rec) == rec.source = "WCT" /\ ~IsYoutubeUrl(rec.url)

\* the records of the buckets that a pass targets, as (country, index, record),
\* the countries in the order of the file (which no result depends on)
RECURSIVE TargetsOf(_, _, _)
TargetsOf(buckets, countries, script) ==
    IF countries = {} THEN <<>>
    ELSE LET c == CHOOSE c \in countries : TRUE
         IN SelectSeq([j \in DOMAIN buckets[c] |-> <<c, j, buckets[c][j]>>],
                      LAMBDA t : IF script = "retry" THEN IsRetryTarget(t[3])
                                                     ELSE IsYoutubeTarget(t[3]))
            \o TargetsOf(buckets, countries \ {c}, script)

\* the index in wct_targets of the record (country, j), or 0
TargetIndex(country, j) ==
    IF \E i \in DOMAIN wct_targets : wct_targets[i][1] = country /\ wct_targets[i][2] = j
    THEN CHOOSE i \in DOMAIN wct_targets : wct_targets[i][1] = country /\ wct_targets[i][2] = j
    ELSE 0

\* retry_webcamtaxi_iframes.fetch_iframe_url: (iframe_src, http_status, success)
retry_fetch_iframe_url(resp) ==
    IF resp.kind = "response"
    THEN IF resp.status = 200 /\ resp.iframe # <<>>
         THEN <<<<unescape_text(resp.iframe[1])>>, 200, TRUE>>
         ELSE <<<<>>, resp.status, FALSE>>
    ELSE IF resp.kind = "timeout" THEN <<<<>>, 0, FALSE>>
    ELSE <<<<>>, -1, FALSE>>

\* retry_webcamtaxi_iframes.main when no record is targeted: it returns
\* before it writes anything
RetryNothingToDo ==
    /\ pass = "idle"
    /\ runs < MaxMergeRuns
    /\ combined_json # <<>>
    /\ TargetsOf(combined_json[1], DOMAIN combined_json[1], "retry") = <<>>
    /\ ending' = "nothing to do"
    /\ last' = <<"retry", <<>>, <<>>>>
    /\ runs' = runs + 1
    /\ UNCHANGED <<earthcams, webcamtaxi, combined_json, pass, transformed, wct_targets,
                   results, fnVars, mainVars, rescrapeVars, canonVars, geoVars, ytVars>>

\* retry_webcamtaxi_iframes.main up to the submission of the futures
StartRetry ==
    /\ pass = "idle"
    /\ runs < MaxMergeRuns
    /\ combined_json # <<>>
    /\ LET targets == TargetsOf(combined_json[1], DOMAIN combined_json[1], "retry") IN
       /\ targets # <<>>
       /\ wct_targets' = targets
       /\ results' = [i \in DOMAIN targets |-> <<>>]
    /\ pass' = "retry"
    /\ UNCHANGED <<earthcams, webcamtaxi, combined_json, runs, transformed, last, ending,
                   fnVars, mainVars, rescrapeVars, canonVars, geoVars, ytVars>>

\* a future of the retry completes, in any order
CompleteRetryFuture ==
    /\ pass = "retry"
    /\ \E i \in DOMAIN results :
         /\ results[i] = <<>>
         /\ \E resp \in Responses :
              results' = [results EXCEPT ![i] = <<retry_fetch_iframe_url(resp)>>]
    /\ UNCHANGED <<earthcams, webcamtaxi, combined_json, runs, pass, transformed,
                   wct_targets, last, ending, fnVars, mainVars, rescrapeVars, canonVars, geoVars, ytVars>>

RetriedRecordUnguarded(rec, res) ==
    [rec EXCEPT !.url = IF res[1] # <<>> THEN res[1][1] ELSE "",
                !.verified = <<TRUE>>, !.radius = <<VERIFIED_RADIUS>>]

\* the record after the retry applied its result
RetriedRecord(rec, res) ==
    IF res[3] /\ res[1] # <<>> /\ res[1] # <<"">>
    THEN [rec EXCEPT !.url = res[1][1], !.verified = <<TRUE>>, !.radius = <<VERIFIED_RADIUS>>]
    ELSE rec

\* retry_webcamtaxi_iframes.main from "Apply results": write back, statistics
FinishRetry ==
    /\ pass = "retry"
    /\ AllDone
    /\ combined_json' =
         <<[c \in DOMAIN combined_json[1] |->
              [j \in DOMAIN combined_json[1][c] |->
                  IF TargetIndex(c, j) = 0 THEN combined_json[1][c][j]
                  ELSE RetriedRecord(combined_json[1][c][j], ResultAt(TargetIndex(c, j)))]]>>
    /\ ending' = "summary"
    /\ last' = <<pass, wct_targets, results>>
    /\ pass' = "idle" /\ wct_targets' = <<>> /\ results' = <<>>
    /\ runs' = runs + 1
    /\ UNCHANGED <<earthcams, webcamtaxi, transformed, fnVars, mainVars, rescrapeVars, canonVars, geoVars, ytVars>>

\* fetch_wct_youtube.extract_youtube_url: the src of a YouTube iframe of the
\* page, or None when there is none or the navigation fails
extract_youtube_url(resp) ==
    IF resp.kind = "response" /\ resp.iframe # <<>> /\ IsYoutubeUrl(resp.iframe[1])
    THEN <<unescape_text(resp.iframe[1])>>
    ELSE <<>>

\* fetch_wct_youtube.main when no record is targeted
YoutubeNothingToDo ==
    /\ pass = "idle"
    /\ runs < MaxMergeRuns
    /\ combined_json # <<>>
    /\ TargetsOf(combined_json[1], DOMAIN combined_json[1], "fetch_wct_youtube") = <<>>
    /\ ending' = "nothing to do"
    /\ last' = <<"fetch_wct_youtube", <<>>, <<>>>>
    /\ runs' = runs + 1
    /\ UNCHANGED <<earthcams, webcamtaxi, combined_json, pass, transformed, wct_targets,
                   results, fnVars, mainVars, rescrapeVars, canonVars, geoVars, ytVars>>

\* fetch_wct_youtube.main up to the start of the workers; the records of the
\* model fit one batch of the default concurrency
StartYoutube ==
    /\ pass = "idle"
    /\ runs < MaxMergeRuns
    /\ combined_json # <<>>
    /\ LET targets == TargetsOf(combined_json[1], DOMAIN combined_json[1], "fetch_wct_youtube") IN
       /\ targets # <<>>
       /\ wct_targets' = targets
       /\ results' = [i \in DOMAIN targets |-> <<>>]
    /\ pass' = "fetch_wct_youtube"
    /\ UNCHANGED <<earthcams, webcamtaxi, combined_json, runs, transformed, last, ending,
                   fnVars, mainVars, rescrapeVars, canonVars, geoVars, ytVars>>

\* a worker of fetch_wct_youtube stores the result of a record
CompleteYoutubeWorker ==
    /\ pass = "fetch_wct_youtube"
    /\ \E i \in DOMAIN results :
         /\ results[i] = <<>>
         /\ \E resp \in Responses :
              results' = [results EXCEPT ![i] = <<extract_youtube_url(resp)>>]
    /\ UNCHANGED <<earthcams, webcamtaxi, combined_json, runs, pass, transformed,
                   wct_targets, last, ending, fnVars, mainVars, rescrapeVars, canonVars, geoVars, ytVars>>

\* fetch_wct_youtube.main from "Apply results": only the url of a record is
\* set, and the file is written when a YouTube url was found
FinishYoutube ==
    /\ pass = "fetch_wct_youtube"
    /\ AllDone
    /\ combined_json' =
         IF \A i \in DOMAIN results : ResultAt(i) = <<>> THEN combined_json
         ELSE <<[c \in DOMAIN combined_json[1] |->
                  [j \in DOMAIN combined_json[1][c] |->
                      IF TargetIndex(c, j) = 0 \/ ResultAt(TargetIndex(c, j)) = <<>>
                      THEN combined_json[1][c][j]
                      ELSE [combined_json[1][c][j] EXCEPT
                               !.url = ResultAt(TargetIndex(c, j))[1]]]]>>
    /\ ending' = "summary"
    /\ last' = <<pass, wct_targets, results>>
    /\ pass' = "idle" /\ wct_targets' = <<>> /\ results' = <<>>
    /\ runs' = runs + 1
    /\ UNCHANGED <<earthcams, webcamtaxi, transformed, fnVars, mainVars, rescrapeVars, canonVars, geoVars, ytVars>>

MergeNext ==
    \/ StartMergeWebcams \/ FinishMergeWebcams
    \/ StartMergeWebcamtaxi \/ FinishMergeWebcamtaxi
    \/ CompleteFuture
    \/ RetryNothingToDo \/ StartRetry \/ CompleteRetryFuture \/ FinishRetry
    \/ YoutubeNothingToDo \/ StartYoutube \/ CompleteYoutubeWorker \/ FinishYoutube

SpecMerge == MergeInit /\ [][MergeNext]_vars

\* skyline_scraper.py: country_name.lower().replace(" ", "-")
format_country_slug(country_name) == ReplaceChar(Lower(country_name), " ", "-")

-----------------------------------------------------------------------------
(* retry_webcamtaxi_iframes.py run again and again over one combined.json *)

UnverifiedWct(name, path) == FeatureRecord(Feature(name, path, 10, 59), <<<<>>, FALSE>>)
VerifiedWct(name, path) == FeatureRecord(Feature(name, path, 10, 59), <<<<IframeSrc>>, TRUE>>)

\* the files combined.json the merges leave: records of the three sources,
\* verified, unverified, and with verified null
RetryDatasets == {
    [c \in {"Norway", "Isle Of Man"} |->
        IF c = "Norway"
        THEN << EnrichSLW([ExistingRecord EXCEPT !.verified = <<>>]),
                UnverifiedWct("Oslo Harbour", "/en/norway/oslo/harbour.html"),
                VerifiedWct("Oslo Opera", "/en/norway/oslo/opera.html"),
                ApplyVerification(PlaceRecord(Place("oslo", "Oslo Harbour", "Norway", "Oslo",
                                                    59, 10)), FALSE) >>
        ELSE << UnverifiedWct("Douglas Promenade", "/en/isle-of-man/douglas/promenade.html") >>],
    [c \in {"Norway"} |->
        << UnverifiedWct("Oslo Harbour", "/en/norway/oslo/harbour.html"),
           [UnverifiedWct("Oslo Fjord", "/en/norway/oslo/fjord.html") EXCEPT !.verified = <<>>] >>],
    [c \in {"Norway"} |->
        << VerifiedWct("Oslo Opera", "/en/norway/oslo/opera.html"),
           EnrichSLW(ExistingRecord) >>] }

RetryInit ==
    /\ combined_json \in {<<dataset>> : dataset \in RetryDatasets}
    /\ webcam_locations = <<>> /\ earthcams = <<>> /\ webcamtaxi = <<>>
    /\ runs = 0
    /\ WorkersIdle
    /\ ci = 0 /\ links_left = 0 /\ country_records = <<>> /\ rpc = "idle"
    /\ FnIdle /\ MainIdle /\ CanonIdle /\ GeoIdle /\ YtIdle

RetryNext == RetryNothingToDo \/ StartRetry \/ CompleteRetryFuture \/ FinishRetry

SpecRetry == RetryInit /\ [][RetryNext]_vars

-----------------------------------------------------------------------------
(* The geocoders: rescrape_regional.py, smart_geocoder.py, skyline_geocoder.py *)

\* A coordinate is a number of hundredths of a degree: 102 is the JSON number
\* 1.02.  Python holds it as the float64 nearest to it, and the span of a
\* viewport is the float64 difference of two of them.  For a > 0 with
\* 2^e <= a/100 < 2^(e+1) the float64 is a multiple of 2^(e-52).

\* MAX_VIEWPORT_SPAN_DEG = 0.02
MAX_VIEWPORT_SPAN_DEG == 2

Abs(n) == IF n < 0 THEN -n ELSE n

\* e with 2^e <= a/100 < 2^(e+1), for a > 0
RECURSIVE Binade(_)
Binade(a) ==
    IF a >= 200 THEN Binade(a \div 2) + 1
    ELSE IF a < 100 THEN Binade(a * 2) - 1
    ELSE 0

RECURSIVE Pow2(_)
Pow2(n) == IF n = 0 THEN 1 ELSE 2 * Pow2(n - 1)

RECURSIVE Pow2Mod100(_)
Pow2Mod100(n) == IF n = 0 THEN 1 ELSE (2 * Pow2Mod100(n - 1)) % 100

\* 100 * 2^58 * (float64(a/100) - a/100) for a >= 0: with k = 52 - Binade(a)
\* the float64 is round(a * 2^k / 100) / 2^k, and the remainder of a * 2^k
\* by 100 (never 50, as 4 divides a * 2^k) says which way it was rounded
RoundingError(a) ==
    IF a = 0 THEN 0
    ELSE LET k == 52 - Binade(a)
             r == ((a % 100) * Pow2Mod100(k)) % 100
         IN (IF r < 50 THEN -r ELSE 100 - r) * Pow2(58 - k)

SignedRoundingError(a) == IF a < 0 THEN -RoundingError(-a) ELSE RoundingError(a)

SpanExceedsDecimal(ne, sw) == Abs(ne - sw) > MAX_VIEWPORT_SPAN_DEG

\* abs(ne - sw) > MAX_VIEWPORT_SPAN_DEG in float64, for coordinates of one
\* sign that are 0 or at least one degree (their difference is then exact):
\* the decimal spans decide unless the span is 0.02, and then the rounding
\* errors of the two corners against that of 0.02 do
SpanExceeds(ne, sw) ==
    IF Abs(ne - sw) # MAX_VIEWPORT_SPAN_DEG THEN Abs(ne - sw) > MAX_VIEWPORT_SPAN_DEG
    ELSE (IF ne > sw THEN SignedRoundingError(ne) - SignedRoundingError(sw)
                     ELSE SignedRoundingError(sw) - SignedRoundingError(ne))
         > RoundingError(MAX_VIEWPORT_SPAN_DEG)

\* if ne and sw: lat_span > MAX_VIEWPORT_SPAN_DEG or lng_span > MAX_VIEWPORT_SPAN_DEG
IsArea(viewport) ==
    /\ viewport.northeast # <<>>
    /\ viewport.southwest # <<>>
    /\ \/ SpanExceeds(viewport.northeast[1].lat, viewport.southwest[1].lat)
       \/ SpanExceeds(viewport.northeast[1].lng, viewport.southwest[1].lng)

\* geocode_query once the answer is parsed: None (<<>>) or lat, lng, is_area
\* of the first candidate
ResolveCandidate(answer) ==
    IF answer.status # "OK" \/ answer.candidates = <<>> THEN <<>>
    ELSE LET geometry == answer.candidates[1] IN
         IF geometry.location.lat = <<>> \/ geometry.location.lng = <<>> THEN <<>>
         ELSE <<[lat |-> geometry.location.lat[1], lng |-> geometry.location.lng[1],
                 is_area |-> IsArea(geometry.viewport)]>>

Returned(value) == [raised |-> FALSE, value |-> value]
Raised == [raised |-> TRUE, value |-> <<>>]

\* rescrape_regional.geocode_query: every exception is caught, and the status
\* of the HTTP response is not looked at
rescrape_geocode_query(answer) ==
    IF answer.transport \in {"timeout", "connection"} THEN Returned(<<>>)
    ELSE Returned(ResolveCandidate(answer))

\* smart_geocoder.geocode_query: every exception is caught, that of
\* raise_for_status included
smart_geocode_query(answer) ==
    IF answer.transport # "ok" THEN Returned(<<>>)
    ELSE Returned(ResolveCandidate(answer))

\* skyline_geocoder.geocode_query: no exception is caught
skyline_geocode_query(answer) ==
    IF answer.transport # "ok" THEN Raised
    ELSE Returned(ResolveCandidate(answer))

geocode_query(script, answer) ==
    IF script = "rescrape_regional" THEN rescrape_geocode_query(answer)
    ELSE IF script = "smart_geocoder" THEN smart_geocode_query(answer)
    ELSE skyline_geocode_query(answer)

SKYLINE_STOPWORDS == {"skylinewebcams", "cam", "cams", "live", "in"}

RECURSIVE SkylineKeepCleaned(_)
SkylineKeepCleaned(words) ==
    IF words = <<>> THEN <<>>
    ELSE LET word == RemoveChar(Head(words), "-")
         IN (IF word # "" /\ word \notin SKYLINE_STOPWORDS THEN <<word>> ELSE <<>>)
            \o SkylineKeepCleaned(Tail(words))

skyline_clean_words(text) == SkylineKeepCleaned(SplitFrom(Lower(text), 1, ""))

\* skyline_geocoder.extract_search_query: the query as <<q>>, or <<>> for None
skyline_extract_search_query(title, subtitle) ==
    LET h1_words == skyline_clean_words(title)
        h2_words == skyline_clean_words(subtitle)
        common == CommonWords(h1_words, {h2_words[i] : i \in DOMAIN h2_words}, {})
    IN IF h1_words = <<>> \/ h2_words = <<>> THEN <<>>
       ELSE IF common = <<>> THEN <<>>
       ELSE <<JoinWords(common)>>

\* smart_geocoder.py: the locations of a record and the list of queries
FILLER_WORDS == {
    "view", "of", "the", "from", "with", "and", "in", "over", "a", "an",
    "panoramic", "panorama", "background", "beach", "live", "cam", "webcam",
    "skylinewebcams", "selection", "best", "web", "on", "to", "at", "by",
    "its", "is", "are", "was", "were", "be", "been", "being",
    "this", "that", "these", "those", "it", "for", "between",
    "city", "town", "village", "area", "region", "province", "district",
    "along", "near", "towards", "facing", "looking", "showing",
    "featuring", "including", "located", "situated" }

TITLE_NOISE == {"live", "cam", "webcam", "skylinewebcams", "cams"}

\* the short connectors extract_subtitle_locations skips
SHORT_CONNECTORS == {"de", "la", "el", "do", "da", "le", "di", "du", "al", "il", "lo",
                     "os", "as", "no", "na", "em"}

\* strip_accents: NFKD, then the combining marks dropped
AccentedLetters == "ÁÉÍÓÚÑÜÇÊÖáéíóúñüçêö"
BaseLetters == "AEIOUNUCEOaeiounuceo"
BaseMap == [c \in CharSet(AccentedLetters) |->
               Char(BaseLetters, CHOOSE i \in 1..Len(AccentedLetters) : Char(AccentedLetters, i) = c)]

RECURSIVE strip_accents(_)
strip_accents(text) ==
    IF text = "" THEN ""
    ELSE (IF Char(text, 1) \in DOMAIN BaseMap THEN BaseMap[Char(text, 1)] ELSE Char(text, 1))
         \o strip_accents(Tail(text))

\* str.strip()
RECURSIVE LStrip(_)
LStrip(text) ==
    IF text # "" /\ IsSpace(Char(text, 1)) THEN LStrip(Tail(text)) ELSE text

RECURSIVE RStrip(_)
RStrip(text) ==
    IF text # "" /\ IsSpace(Char(text, Len(text)))
    THEN RStrip(SubSeq(text, 1, Len(text) - 1)) ELSE text

Strip(text) == RStrip(LStrip(text))

\* the delimiters of a title; the en dash and the em dash of the source are
\* outside the alphabet of the model
TITLE_DELIMITERS == {"-", "|"}

\* re.split(r"\s*[-|]\s*", title), up to the whitespace around each part
RECURSIVE SplitParts(_, _, _)
SplitParts(text, i, cur) ==
    IF i > Len(text) THEN <<cur>>
    ELSE IF Char(text, i) \in TITLE_DELIMITERS
         THEN <<cur>> \o SplitParts(text, i + 1, "")
         ELSE SplitParts(text, i + 1, cur \o Char(text, i))

\* the parts with a word that is not noise, stripped
RECURSIVE CleanedParts(_)
CleanedParts(parts) ==
    IF parts = <<>> THEN <<>>
    ELSE LET part == Strip(Head(parts))
             words == SplitFrom(Lower(part), 1, "")
         IN (IF \E i \in DOMAIN words : words[i] \notin TITLE_NOISE THEN <<part>> ELSE <<>>)
            \o CleanedParts(Tail(parts))

\* the first position from i on that holds no whitespace
RECURSIVE SkipSpaces(_, _)
SkipSpaces(text, i) ==
    IF i <= Len(text) /\ IsSpace(Char(text, i)) THEN SkipSpaces(text, i + 1) ELSE i

StartsAt(text, i, word) ==
    i + Len(word) - 1 <= Len(text) /\ SubSeq(text, i, i + Len(word) - 1) = word

\* (live\s*cam|webcam|skylinewebcams) matched at j of the lowercased text: the
\* position after the match, or 0
NoiseEnd(lowered, j) ==
    IF StartsAt(lowered, j, "live")
    THEN LET k == SkipSpaces(lowered, j + 4)
         IN IF StartsAt(lowered, k, "cam") THEN k + 3 ELSE 0
    ELSE IF StartsAt(lowered, j, "webcam") THEN j + 6
    ELSE IF StartsAt(lowered, j, "skylinewebcams") THEN j + 14
    ELSE 0

\* re.sub(r"\s*(live\s*cam|webcam|skylinewebcams)\s*$", "", text)
RemoveTrailingNoise(text) ==
    LET lowered == Lower(text)
        Matches(i) == LET e == NoiseEnd(lowered, SkipSpaces(lowered, i))
                      IN e # 0 /\ SkipSpaces(lowered, e) = Len(text) + 1
        starts == {i \in 1..Len(text) : Matches(i)}
    IN IF starts = {} THEN text
       ELSE SubSeq(text, 1, (CHOOSE i \in starts : \A j \in starts : i <= j) - 1)

\* re.sub(r"\s*(live\s*cam|webcam|skylinewebcams)\s*", " ", text)
RECURSIVE ReplaceNoise(_, _, _)
ReplaceNoise(text, lowered, i) ==
    IF i > Len(text) THEN ""
    ELSE LET e == NoiseEnd(lowered, SkipSpaces(lowered, i))
         IN IF e # 0 THEN " " \o ReplaceNoise(text, lowered, SkipSpaces(lowered, e))
            ELSE Char(text, i) \o ReplaceNoise(text, lowered, i + 1)

extract_title_location(title) ==
    LET joined == JoinWords(CleanedParts(SplitParts(title, 1, "")))
        trimmed == RemoveTrailingNoise(joined)
    IN Strip(ReplaceNoise(trimmed, Lower(trimmed), 1))

\* the punctuation extract_subtitle_locations turns into spaces
SUBTITLE_PUNCTUATION == CharSet(",;:!?\"'()[]{}/\\")

RECURSIVE WithoutPunctuation(_)
WithoutPunctuation(text) ==
    IF text = "" THEN ""
    ELSE (IF Char(text, 1) \in SUBTITLE_PUNCTUATION THEN " " ELSE Char(text, 1))
         \o WithoutPunctuation(Tail(text))

\* str.isdigit()
IsDigits(word) == word # "" /\ \A i \in 1..Len(word) : Char(word, i) \in CharSet(Digits)

\* the words kept: no filler word and no short connector; a capitalised word
\* without its accents, a number as it is
RECURSIVE KeptWords(_)
KeptWords(words) ==
    IF words = <<>> THEN <<>>
    ELSE LET word == Head(words)
             word_lower == Lower(word)
         IN (IF word_lower \in FILLER_WORDS THEN <<>>
             ELSE IF Len(word) <= 2 /\ word_lower \in SHORT_CONNECTORS THEN <<>>
             ELSE IF Char(word, 1) \in UpperSet THEN <<strip_accents(word)>>
             ELSE IF IsDigits(word) THEN <<word>>
             ELSE <<>>)
            \o KeptWords(Tail(words))

extract_subtitle_locations(subtitle) ==
    IF subtitle = "" THEN ""
    ELSE JoinWords(KeptWords(SplitFrom(WithoutPunctuation(subtitle), 1, "")))

\* the words in order, each once whatever its casing, without the country
RECURSIVE AllWords(_, _, _)
AllWords(words, seen, country) ==
    IF words = <<>> THEN <<>>
    ELSE LET w_lower == Lower(Head(words)) IN
         IF w_lower \notin seen /\ w_lower # Lower(country)
         THEN <<Head(words)>> \o AllWords(Tail(words), seen \cup {w_lower}, country)
         ELSE AllWords(Tail(words), seen, country)

\* x in queries
InList(x, list) == \E i \in DOMAIN list : list[i] = x

AppendAlways(queries, x) == Append(queries, x)

\* queries.append(x) unless x is in queries
AppendNew(queries, x) == IF InList(x, queries) THEN queries ELSE Append(queries, x)

build_queries(title_loc, subtitle_loc, country) ==
    LET title_words == IF title_loc # "" THEN SplitFrom(title_loc, 1, "") ELSE <<>>
        subtitle_words == IF subtitle_loc # "" THEN SplitFrom(subtitle_loc, 1, "") ELSE <<>>
        all_words == AllWords(title_words \o subtitle_words, {}, country)
        q1 == IF all_words # <<>> THEN <<JoinWords(all_words) \o " " \o country>> ELSE <<>>
        q2 == IF title_loc # "" THEN AppendNew(q1, title_loc \o " " \o country) ELSE q1
        q3 == IF title_loc # "" THEN AppendNew(q2, title_loc) ELSE q2
    IN IF subtitle_loc # "" THEN AppendNew(q3, subtitle_loc \o " " \o country) ELSE q3

\* the answers of the Places API
Location == [lat |-> <<-1639>>, lng |-> <<-3906>>]
NoViewport == [northeast |-> <<>>, southwest |-> <<>>]
Corner(lat, lng) == <<[lat |-> lat, lng |-> lng]>>
SouthwestLats == {100, 1000, -1640}
Spans == {1, 2, 3}
Viewports ==
    {[northeast |-> Corner(lat + dlat, 1000 + dlng), southwest |-> Corner(lat, 1000)] :
        lat \in SouthwestLats, dlat \in Spans, dlng \in Spans}
    \cup {NoViewport, [northeast |-> Corner(103, 1003), southwest |-> <<>>]}
Answer(transport, status, candidates) ==
    [transport |-> transport, status |-> status, candidates |-> candidates]
Answers ==
    {Answer("ok", "OK", <<[location |-> Location, viewport |-> v]>>) : v \in Viewports}
    \cup {Answer("ok", "OK", <<[location |-> [lat |-> <<>>, lng |-> <<-3906>>],
                                viewport |-> NoViewport]>>),
          Answer("ok", "OK", <<[location |-> [lat |-> <<-1639>>, lng |-> <<>>],
                                viewport |-> NoViewport]>>),
          Answer("ok", "OK", <<>>),
          Answer("ok", "ZERO_RESULTS", <<>>),
          Answer("ok", "REQUEST_DENIED", <<>>),
          Answer("timeout", "", <<>>),
          Answer("connection", "", <<>>),
          Answer("http_error", "UNKNOWN_ERROR", <<>>)}

\* the pages rescrape_regional scrapes with a title
GeoPages == {
    <<"Live Cams in Brazil", "", "feed">>,
    <<"Oslo - Opera House Live cam", "View of Oslo", "feed">>,
    <<"Oslo | Norway Live cam", "Norway | Oslo", "feed">>,
    <<"Live cam", "", "feed">>,
    <<"Webcam", "View of Oslo", "feed">>,
    <<"Bergen Live cam", "Bryggen wharf, Bergen", "feed">>,
    <<"Porto Seguro - Praia de Taperapuan Live cam", "Praia de Taperapuan, Porto Seguro",
      "https://www.youtube.com/watch?v=abc">> }

\* the records of skyline_webcams.json that skyline_geocoder reads
SkylineRecords ==
    {<<page[1], page[2], page[3], "automatic", <<200>>>> : page \in GeoPages}
    \cup {<<"Oslo - Opera House Live cam", "View of Oslo", "feed", "manual", <<500>>>>}

\* the unverified records of webcam_locations.json that smart_geocoder reads:
\* those the rescrape could not geocode, and one that has coordinates
SmartRecords ==
    {RescrapedRecord(page, <<>>) : page \in GeoPages}
    \cup {RescrapedRecord(<<"Oslo - Opera House Live cam", "View of Oslo", "feed">>,
                          <<[lat |-> 5991, lng |-> 1075, is_area |-> TRUE]>>)}

GeoInputs(script) ==
    IF script = "rescrape_regional" THEN GeoPages
    ELSE IF script = "smart_geocoder" THEN SmartRecords
    ELSE SkylineRecords

\* the keys of webcam_locations.json under which smart_geocoder finds its
\* records; the other drivers pass no country to their queries
GeoCountries(script) == IF script = "smart_geocoder" THEN {"Norway", "Brazil"} ELSE {""}

GeoInit ==
    /\ gscript \in {"rescrape_regional", "smart_geocoder", "skyline_geocoder"}
    /\ \E input \in GeoInputs(gscript) : gpage = <<input>>
    /\ gcountry \in GeoCountries(gscript)
    /\ gpc = "query"
    /\ gquery = <<>> /\ gqueries = <<>> /\ gresponse = <<>> /\ gresult = <<>> /\ grecord = <<>>
    /\ glookups = <<>>
    /\ FnIdle /\ MainIdle /\ RescrapeIdle /\ CanonIdle /\ MergeIdle /\ YtIdle

GeoFrame == UNCHANGED <<fnVars, mainVars, rescrapeVars, canonVars, mergeVars, ytVars>>

\* rescrape_regional.main: the query of a scraped page; with none, the record
\* is stored without coordinates
RescrapeQuery ==
    /\ gscript = "rescrape_regional" /\ gpc = "query"
    /\ LET query == extract_search_query(gpage[1][1], gpage[1][2]) IN
       /\ gquery' = query
       /\ IF query = <<>>
          THEN gpc' = "done" /\ grecord' = <<RescrapedRecord(gpage[1], <<>>)>>
          ELSE gpc' = "lookup" /\ grecord' = <<>>
       /\ gqueries' = query
    /\ UNCHANGED <<gscript, gpage, gresponse, gresult, gcountry, glookups>>
    /\ GeoFrame

\* skyline_geocoder.main: a record that is tagged manual, is not tagged
\* automatic, or has no query is kept as it is
SkylineQuery ==
    /\ gscript = "skyline_geocoder" /\ gpc = "query"
    /\ LET query == IF gpage[1][4] = "automatic"
                    THEN skyline_extract_search_query(gpage[1][1], gpage[1][2])
                    ELSE <<>> IN
       /\ gquery' = query
       /\ IF query = <<>>
          THEN gpc' = "done" /\ grecord' = gpage
          ELSE gpc' = "lookup" /\ grecord' = <<>>
       /\ gqueries' = query
    /\ UNCHANGED <<gscript, gpage, gresponse, gresult, gcountry, glookups>>
    /\ GeoFrame

\* smart_geocoder.main: a record that has coordinates is left alone, and so is
\* one for which build_queries returns no query; the others get the list
\* build_queries returns for their locations and their country
SmartQueries ==
    /\ gscript = "smart_geocoder" /\ gpc = "query"
    /\ LET title_loc == extract_title_location(gpage[1].title)
           subtitle_loc == extract_subtitle_locations(gpage[1].subtitle)
       IN gqueries' = IF gpage[1].latitude # <<>> /\ gpage[1].longitude # <<>>
                      THEN <<>>
                      ELSE build_queries(title_loc, subtitle_loc, gcountry)
    /\ IF gqueries' = <<>>
       THEN gpc' = "done" /\ grecord' = gpage
       ELSE gpc' = "lookup" /\ grecord' = <<>>
    /\ UNCHANGED <<gscript, gpage, gquery, gresponse, gresult, gcountry, glookups>>
    /\ GeoFrame

NextQueryFromEnd(queries, lookups) == queries[Len(queries) - Len(lookups)]

\* the query the driver passes to geocode_query next: the one after those
\* it has looked up
NextQuery(queries, lookups) == queries[Len(lookups) + 1]

\* result = geocode_query(query, session), whatever the service answers
Lookup ==
    /\ gpc = "lookup"
    /\ \E answer \in Answers :
         /\ gresponse' = <<answer>>
         /\ gresult' = <<geocode_query(gscript, answer)>>
    /\ glookups' = Append(glookups, [query |-> NextQuery(gqueries, glookups),
                                      result |-> gresult'[1]])
    /\ gpc' = "resolved"
    /\ UNCHANGED <<gscript, gpage, gquery, gqueries, grecord, gcountry>>
    /\ GeoFrame

\* rescrape_regional.main: the record of the page with what the lookup gave
RescrapeStore ==
    /\ gscript = "rescrape_regional" /\ gpc = "resolved"
    /\ grecord' = <<RescrapedRecord(gpage[1], gresult[1].value)>>
    /\ gpc' = "done"
    /\ UNCHANGED <<gscript, gpage, gquery, gqueries, gresponse, gresult, gcountry, glookups>>
    /\ GeoFrame

\* skyline_geocoder.main with a result: enriched = list(record[:5]), the tag
\* set to manual for an area, lat and lng appended
SkylineEnriched(record, found) ==
    <<record[1], record[2], record[3],
      IF found.is_area THEN "manual" ELSE record[4], record[5], found.lat, found.lng>>

\* skyline_geocoder.main after the call: the RequestException is caught and
\* the record kept, a result enriches the record, None keeps it
SkylineStore ==
    /\ gscript = "skyline_geocoder" /\ gpc = "resolved"
    /\ grecord' = IF gresult[1].raised \/ gresult[1].value = <<>> THEN gpage
                  ELSE <<SkylineEnriched(gpage[1], gresult[1].value[1])>>
    /\ gpc' = "done"
    /\ UNCHANGED <<gscript, gpage, gquery, gqueries, gresponse, gresult, gcountry, glookups>>
    /\ GeoFrame

\* smart_geocoder.main with a result: the coordinates are set, and verified
\* for a point only
SmartGeocoded(rec, found) ==
    IF found.is_area
    THEN [rec EXCEPT !.latitude = <<found.lat>>, !.longitude = <<found.lng>>]
    ELSE [rec EXCEPT !.latitude = <<found.lat>>, !.longitude = <<found.lng>>,
                     !.verified = <<TRUE>>]

\* smart_geocoder.main: the cascade goes on to its next query after a None
SmartNextQuery ==
    /\ gscript = "smart_geocoder" /\ gpc = "resolved"
    /\ gresult[1].value = <<>>
    /\ Len(glookups) < Len(gqueries)
    /\ gpc' = "lookup"
    /\ UNCHANGED <<gscript, gpage, gquery, gqueries, gresponse, gresult, grecord, gcountry,
                   glookups>>
    /\ GeoFrame

\* smart_geocoder.main: the cascade ends at the first result, or with no
\* query left
SmartStore ==
    /\ gscript = "smart_geocoder" /\ gpc = "resolved"
    /\ gresult[1].value # <<>> \/ Len(glookups) = Len(gqueries)
    /\ grecord' = IF gresult[1].value = <<>> THEN gpage
                  ELSE <<SmartGeocoded(gpage[1], gresult[1].value[1])>>
    /\ gpc' = "done"
    /\ UNCHANGED <<gscript, gpage, gquery, gqueries, gresponse, gresult, gcountry, glookups>>
    /\ GeoFrame

\* the driver goes on to its next page or record
NextRecord ==
    /\ gpc = "done"
    /\ \E input \in GeoInputs(gscript) : gpage' = <<input>>
    /\ gcountry' \in GeoCountries(gscript)
    /\ gpc' = "query"
    /\ gquery' = <<>> /\ gqueries' = <<>> /\ gresponse' = <<>> /\ gresult' = <<>> /\ grecord' = <<>>
    /\ glookups' = <<>>
    /\ UNCHANGED gscript
    /\ GeoFrame

GeoNext ==
    \/ RescrapeQuery \/ SkylineQuery \/ SmartQueries
    \/ Lookup
    \/ RescrapeStore \/ SkylineStore \/ SmartNextQuery \/ SmartStore
    \/ NextRecord

SpecGeocode == GeoInit /\ [][GeoNext]_vars

-----------------------------------------------------------------------------
(* fetch_wct_youtube.py: the batches and the workers of main *)

\* the most records main targets, and the largest --concurrency
MaxTargets == 3
MaxConcurrency == 2

\* the WCT records of combined.json whose url is not a YouTube url
WctPage(i) ==
    [title |-> "Cam " \o ToString(i), source |-> "WCT",
     url |-> BASE_URL \o "/en/norway/oslo/cam" \o ToString(i) \o ".html",
     verified |-> <<FALSE>>, radius |-> <<UNVERIFIED_RADIUS>>]

\* what a navigation meets: a page with a YouTube iframe, a page with another
\* iframe, a page with none, a navigation that fails
YtResponses == {
    [kind |-> "response", status |-> 200, iframe |-> <<"https://www.youtube.com/embed/a">>],
    [kind |-> "response", status |-> 200, iframe |-> <<"https://youtu.be/b">>],
    [kind |-> "response", status |-> 200, iframe |-> <<"https://player.example/live">>],
    [kind |-> "response", status |-> 200, iframe |-> <<>>],
    [kind |-> "timeout", status |-> 0, iframe |-> <<>>] }

Min(a, b) == IF a < b THEN a ELSE b

\* total = len(wct_records); concurrency = min(args.concurrency, total) if total > 0 else 1
Total == Len(yt_input)
Concurrency == IF Total > 0 THEN Min(yargs[1].concurrency, Total) ELSE 1

\* num_batches = (total + batch_size - 1) // batch_size, with batch_size = concurrency
NumBatches == (Total + Concurrency - 1) \div Concurrency
BatchStart(b) == b * Concurrency
BatchEnd(b) == Min(BatchStart(b) + Concurrency, Total)

LocalIndex(batch_start, i) == i

\* queue.put_nowait((batch_start + i, rec)): the index of a record of the
\* batch in wct_records, from 0
GlobalIndex(batch_start, i) == batch_start + i

FirstPage(w) == 1

\* worker(w, pages[w], ...): the page of worker w
PageOf(w) == w

TasksStarted == \A w \in DOMAIN tasks : tasks[w].at # "get"

\* await asyncio.gather(*tasks) returns: every worker has left its loop
TasksDone == \A w \in DOMAIN tasks : tasks[w].at = "done"

YtInit ==
    /\ \E concurrency \in 1..MaxConcurrency, save_interval \in {0, 30}, dry_run \in BOOLEAN :
         yargs = <<[concurrency |-> concurrency, save_interval |-> save_interval,
                    dry_run |-> dry_run]>>
    /\ \E n \in 0..MaxTargets : wct_records = [i \in 1..n |-> WctPage(i)]
    /\ yt_input = wct_records
    /\ batch_idx = 0 /\ queue = <<>> /\ batch_results = <<>> /\ tasks = <<>>
    /\ found_count = 0 /\ disk = <<>> /\ ypc = "collect"
    /\ page_users = <<>> /\ fetches = <<>> /\ yt_log = <<>>
    /\ FnIdle /\ MainIdle /\ RescrapeIdle /\ CanonIdle /\ MergeIdle /\ GeoIdle

YtFrame == UNCHANGED <<fnVars, mainVars, rescrapeVars, canonVars, mergeVars, geoVars>>

\* total == 0: "Nothing to do!", and main returns
YtNothingToDo ==
    /\ ypc = "collect"
    /\ Total = 0
    /\ ypc' = "returned"
    /\ UNCHANGED <<yargs, wct_records, batch_idx, queue, batch_results, tasks, found_count,
                   disk, page_users, fetches, yt_input, yt_log>>
    /\ YtFrame

\* the browser is launched with a pool of concurrency pages
LaunchBrowser ==
    /\ ypc = "collect"
    /\ Total > 0
    /\ page_users' = [p \in 1..Concurrency |-> {}]
    /\ fetches' = [i \in 1..Total |-> <<>>]
    /\ yt_log' = [i \in 1..Total |-> <<>>]
    /\ ypc' = "batch"
    /\ UNCHANGED <<yargs, wct_records, batch_idx, queue, batch_results, tasks, found_count,
                   disk, yt_input>>
    /\ YtFrame

\* the head of "for batch_idx in range(num_batches)": the queue of the batch,
\* an empty results dict, one worker task for each record of the batch
StartBatch ==
    /\ ypc = "batch"
    /\ LET batch_start == BatchStart(batch_idx)
           actual_batch_size == BatchEnd(batch_idx) - batch_start
       IN /\ queue' = [k \in 1..actual_batch_size |-> GlobalIndex(batch_start, k - 1)]
          /\ tasks' = [w \in 1..Min(actual_batch_size, Concurrency) |->
                          [at |-> "get", index |-> -1]]
    /\ batch_results' = <<>>
    /\ ypc' = "gather"
    /\ UNCHANGED <<yargs, wct_records, batch_idx, found_count, disk, page_users, fetches,
                   yt_input, yt_log>>
    /\ YtFrame

\* worker: queue.get_nowait(), and with a record the navigation of its page
\* starts; with QueueEmpty the worker leaves its loop
WorkerGet(w) ==
    /\ ypc = "gather"
    /\ tasks[w].at = "get"
    /\ IF queue = <<>>
       THEN /\ tasks' = [tasks EXCEPT ![w].at = "done"]
            /\ UNCHANGED <<queue, page_users, fetches>>
       ELSE /\ tasks' = [tasks EXCEPT ![w] = [at |-> "fetching", index |-> Head(queue)]]
            /\ queue' = Tail(queue)
            /\ page_users' = [page_users EXCEPT ![PageOf(w)] = @ \cup {w}]
            /\ fetches' = [fetches EXCEPT ![Head(queue) + 1] = Append(@, w)]
    /\ UNCHANGED <<yargs, wct_records, batch_idx, batch_results, found_count, disk, ypc,
                   yt_input, yt_log>>
    /\ YtFrame

\* worker: results[index] = youtube_url, whatever the navigation met
WorkerStore(w) ==
    /\ ypc = "gather"
    /\ tasks[w].at = "fetching"
    /\ \E resp \in YtResponses :
         /\ batch_results' = Append(batch_results, <<tasks[w].index, extract_youtube_url(resp)>>)
         /\ yt_log' = [yt_log EXCEPT ![tasks[w].index + 1] = <<extract_youtube_url(resp)>>]
    /\ tasks' = [tasks EXCEPT ![w].at = "sleeping"]
    /\ page_users' = [page_users EXCEPT ![PageOf(w)] = @ \ {w}]
    /\ UNCHANGED <<yargs, wct_records, batch_idx, queue, found_count, disk, ypc, fetches,
                   yt_input>>
    /\ YtFrame

\* worker: await asyncio.sleep(0.5) is over
WorkerWake(w) ==
    /\ ypc = "gather"
    /\ tasks[w].at = "sleeping"
    /\ tasks' = [tasks EXCEPT ![w].at = "get"]
    /\ UNCHANGED <<yargs, wct_records, batch_idx, queue, batch_results, found_count, disk,
                   ypc, page_users, fetches, yt_input, yt_log>>
    /\ YtFrame

\* for global_idx, youtube_url in results.items(): rec["url"] = youtube_url
RECURSIVE ApplyResults(_, _)
ApplyResults(records, items) ==
    IF items = <<>> THEN records
    ELSE LET global_idx == Head(items)[1]
             youtube_url == Head(items)[2]
         IN ApplyResults(IF youtube_url # <<>> /\ youtube_url # <<"">>
                         THEN [records EXCEPT ![global_idx + 1].url = youtube_url[1]]
                         ELSE records,
                         Tail(items))

FoundIn(items) ==
    Cardinality({k \in DOMAIN items : items[k][2] # <<>> /\ items[k][2] # <<"">>})

\* the rest of the turn of the batch loop once gather has returned: the
\* results are applied, and combined.json is saved when the save interval has
\* run out (which the clock decides), unless it is a dry run or nothing was found
FinishBatch ==
    /\ ypc = "gather"
    /\ TasksDone
    /\ wct_records' = ApplyResults(wct_records, batch_results)
    /\ found_count' = found_count + FoundIn(batch_results)
    /\ \E interval_over \in BOOLEAN :
         disk' = IF /\ yargs[1].save_interval > 0
                    /\ interval_over
                    /\ ~yargs[1].dry_run
                    /\ found_count' > 0
                 THEN Append(disk, wct_records')
                 ELSE disk
    /\ batch_idx' = batch_idx + 1
    /\ ypc' = IF batch_idx + 1 < NumBatches THEN "batch" ELSE "close"
    /\ UNCHANGED <<yargs, queue, batch_results, tasks, page_users, fetches, yt_input, yt_log>>
    /\ YtFrame

\* after the loop: the browser is closed, the results are printed, and
\* combined.json is written unless it is a dry run or nothing was found
CloseAndSave ==
    /\ ypc = "close"
    /\ disk' = IF ~yargs[1].dry_run /\ found_count > 0 THEN Append(disk, wct_records) ELSE disk
    /\ ypc' = "done"
    /\ UNCHANGED <<yargs, wct_records, batch_idx, queue, batch_results, tasks, found_count,
                   page_users, fetches, yt_input, yt_log>>
    /\ YtFrame

\* the steps of the worker tasks, which the event loop interleaves
WorkerGets == \E w \in DOMAIN tasks : WorkerGet(w)
WorkerStores == \E w \in DOMAIN tasks : WorkerStore(w)
WorkerWakes == \E w \in DOMAIN tasks : WorkerWake(w)

YtNext ==
    \/ YtNothingToDo \/ LaunchBrowser \/ StartBatch
    \/ WorkerGets \/ WorkerStores \/ WorkerWakes
    \/ FinishBatch \/ CloseAndSave

SpecYoutube == YtInit /\ [][YtNext]_vars

-----------------------------------------------------------------------------
(* Properties of the classification stage and of the regional rescrape *)

\* the title begins with the phrase, in any letter casing
BeginsAnyCase(title, phrase) ==
    /\ Len(title) >= Len(phrase)
    /\ Lower(SubSeq(title, 1, Len(phrase))) = Lower(phrase)

IsIndexTitle(title) ==
    BeginsAnyCase(title, "Live Cams in") \/ BeginsAnyCase(title, "Liva Cams in")

\* C6: a record whose title begins, in any letter casing, with "Live Cams in"
\* or "Liva Cams in" is in no output dataset: not in the records the
\* classification stage has produced or written, and not in a bucket of
\* webcam_locations.json.
C6_NoIndexPageInOutput ==
    /\ \A i \in DOMAIN output_data :
          Len(output_data[i]) >= 1 => ~IsIndexTitle(output_data[i][1])
    /\ mpc = "done" =>
          \A i \in DOMAIN skyline_webcams :
              Len(skyline_webcams[i]) >= 1 => ~IsIndexTitle(skyline_webcams[i][1])
    /\ \A c \in DOMAIN webcam_locations : \A i \in DOMAIN webcam_locations[c] :
          ~IsIndexTitle(webcam_locations[c][i].title)

\* the radius is set, a positive integer, and at most 2500
RadiusInRange(radius) == radius # <<>> /\ radius[1] \in 1..2500

\* C7: every record the classification stage writes has a radius that is set,
\* positive and at most 2500.
C7_RadiusSetAndBounded ==
    mpc = "done" =>
        \A i \in DOMAIN skyline_webcams :
            /\ Len(skyline_webcams[i]) >= 5
            /\ RadiusInRange(skyline_webcams[i][5])

\* the text mentions one of the words
Mentions(text, words) == \E w \in words : Contains(Lower(text), w)

\* the radius the manual-radius table assigns to a text
ManualTableRadius(text) ==
    IF Mentions(text, {"beach", "playa", "plaza", "square", "pier", "lighthouse"}) THEN 200
    ELSE IF Mentions(text, {"panorama", "panoramic", "skyline"}) THEN 2500
    ELSE IF Mentions(text, {"traffic"}) THEN 500
    ELSE 1500

\* the record the loop of main has just handled entered already tagged manual
\* and was not dropped as an index page
JustHandledManual ==
    /\ idx > 0
    /\ Len(data[idx]) >= 4
    /\ data[idx][4] = "manual"
    /\ ~IsIndexTitle(data[idx][1])

\* C8: a record that enters classification already tagged manual leaves it
\* tagged manual; with a fifth field it leaves unchanged, and without one it
\* leaves with the radius of the manual-radius table (200 for a named landmark,
\* else 2500 for panorama/panoramic/skyline, else 500 for traffic, else 1500).
C8_ManualKept ==
    JustHandledManual =>
        LET record == data[idx]
            out == output_data[Len(output_data)]
        IN /\ output_data # <<>>
           /\ out[4] = "manual"
           /\ Len(record) >= 5 => out = record
           /\ Len(record) = 4 =>
                 out = record \o <<<<ManualTableRadius(record[1] \o " " \o record[2])>>>>

\* a manual record without a radius whose text names both a pier and a
\* skyline has left with radius 200
C8_Witness ==
    /\ JustHandledManual
    /\ data[idx] = <<"Pierre Skyline", "", "url", "manual">>
    /\ output_data[Len(output_data)] = <<"Pierre Skyline", "", "url", "manual", <<200>>>>

\* C9: both canonicalizers are idempotent, and England, Wales and Scotland
\* canonicalize to "United Kingdom" as labels and as slugs.
C9_CanonIdempotent ==
    /\ twice # <<>> => twice = once
    /\ (once # <<>> /\ kind = "label" /\ raw \in {"England", "Wales", "Scotland"}) =>
          once = <<"United Kingdom">>
    /\ (once # <<>> /\ kind = "slug" /\ raw \in {"england", "wales", "scotland"}) =>
          once = <<"United Kingdom">>

\* the bucket keys of combined.json
BucketKeys == IF combined_json = <<>> THEN {} ELSE DOMAIN combined_json[1]

\* the bucket holds a record of the source with the title
Holds(key, source, title) ==
    \E i \in DOMAIN combined_json[1][key] :
        /\ combined_json[1][key][i].source = source
        /\ combined_json[1][key][i].title = title

\* C10: no two bucket keys of the combined dataset are equal up to letter
\* casing, and the record of an EarthCam place and the record of a WebcamTaxi
\* feature whose slug is the slug of the place's country label are in the
\* same bucket.
C10_OneKeyPerCountry ==
    /\ \A k1, k2 \in BucketKeys : Lower(k1) = Lower(k2) => k1 = k2
    /\ \A i \in DOMAIN earthcams, j \in DOMAIN webcamtaxi :
          format_country_slug(earthcams[i].country) = CountrySlug(unescape_text(webcamtaxi[j].url))
          => \A k1, k2 \in BucketKeys :
                (Holds(k1, "EW", earthcams[i].name) /\ Holds(k2, "WCT", unescape_text(webcamtaxi[j].name)))
                => k1 = k2

-----------------------------------------------------------------------------
(* Properties of the merge runs and of the worker passes *)

\* the records are one record of the dataset: same source and same title
SameRecord(a, b) == a.source = b.source /\ a.title = b.title

\* every record of the old buckets is in the new ones, in the same bucket at
\* the same place, so that the new buckets only have records appended
AppendedOnly(old, new) ==
    \A c \in DOMAIN old :
        /\ c \in DOMAIN new
        /\ \A i \in DOMAIN old[c] :
              i \in DOMAIN new[c] /\ SameRecord(old[c][i], new[c][i])

\* C11: whichever merge runs, every record that was in combined.json before
\* the run is still in it afterwards, in the same bucket, and the run has only
\* appended records after the existing ones.
C11_AppendOnly ==
    [][combined_json # <<>> =>
          /\ combined_json' # <<>>
          /\ AppendedOnly(combined_json[1], combined_json'[1])]_vars

\* the run that is finishing repeats the last finished run: the same script,
\* the same work list from the same input files, the same results of the requests
RepeatsLastRun ==
    /\ pass # "idle"
    /\ pass' = "idle"
    /\ last # <<>>
    /\ last[1] = pass
    /\ last[2] = transformed
    /\ last[3] = results

\* C12: a merge run that repeats the run before it, with the same input files
\* and the same network responses, leaves the buckets of combined.json as the
\* first run left them.
C12_MergeTwiceAsOnce ==
    [][RepeatsLastRun => combined_json' = combined_json]_vars

\* a merge run has just finished
MergeFinished == pass = "idle" /\ last # <<>> /\ last[1] \in {"merge_webcams", "merge_webcamtaxi"}

\* of the last finished merge run: the number of requests, the source of its
\* records, whether request i succeeded (HTTP 200 for a verification, an
\* iframe found for an extraction), and the bucket and title of its record i
BatchSize == Len(last[2])
BatchSource == IF last[1] = "merge_webcams" THEN "EW" ELSE "WCT"
Succeeded(i) == IF last[1] = "merge_webcams" THEN last[3][i][1] ELSE last[3][i][1][2]
BatchBucket(i) == combined_json[1][last[2][i][1]]
BatchTitle(i) ==
    IF last[1] = "merge_webcams" THEN last[2][i][2].title ELSE unescape_text(last[2][i][2].name)

\* the record of request i: the last one of its source and title in its bucket
BatchRecord(i) ==
    LET bucket == BatchBucket(i)
        at == {j \in DOMAIN bucket :
                  bucket[j].source = BatchSource /\ bucket[j].title = BatchTitle(i)}
    IN bucket[CHOOSE j \in at : \A k \in at : k <= j]

IsConfirmed(rec) == rec.verified = <<TRUE>> /\ rec.radius = <<10>>
IsUnconfirmed(rec) == rec.verified = <<FALSE>> /\ rec.radius = <<200>>

\* C13: after the worker pass of a merge over N records of which k requests
\* succeeded, each record carries the outcome of its own request, exactly k
\* records are verified with radius 10 and exactly N - k are unverified with
\* radius 200, in whatever order the futures completed.
C13_OutcomePerRecord ==
    MergeFinished =>
        /\ \A i \in 1..BatchSize :
              /\ last[2][i][1] \in DOMAIN combined_json[1]
              /\ IF Succeeded(i) THEN IsConfirmed(BatchRecord(i))
                                 ELSE IsUnconfirmed(BatchRecord(i))
        /\ Cardinality({i \in 1..BatchSize : IsConfirmed(BatchRecord(i))})
             = Cardinality({i \in 1..BatchSize : Succeeded(i)})
        /\ Cardinality({i \in 1..BatchSize : IsUnconfirmed(BatchRecord(i))})
             = BatchSize - Cardinality({i \in 1..BatchSize : Succeeded(i)})

\* a merge of two records has finished, the first request failed and the
\* second succeeded
C13_Witness ==
    /\ MergeFinished
    /\ BatchSize = 2
    /\ ~Succeeded(1) /\ Succeeded(2)
    /\ IsUnconfirmed(BatchRecord(1)) /\ IsConfirmed(BatchRecord(2))

\* the record that target i of the last finished pass over combined.json
\* points at
TargetRecord(i) == combined_json[1][last[2][i][1]][last[2][i][2]]

\* fetch_wct_youtube has just finished a pass in which it located an embed
YoutubeFinished == pass = "idle" /\ last # <<>> /\ last[1] = "fetch_wct_youtube"

\* C14: in every worker pass, a record for which an embed reference is located
\* ends with verified = true and radius = 10.  Stated for the pass of
\* fetch_wct_youtube: every record whose worker returned a YouTube url is
\* confirmed when the pass has finished.
C14_LocatedEmbedConfirms ==
    YoutubeFinished =>
        \A i \in DOMAIN last[3] :
            last[3][i][1] # <<>> => IsConfirmed(TargetRecord(i))

\* the retry has just finished a pass
RetryFinished == pass = "idle" /\ last # <<>> /\ last[1] = "retry" /\ last[2] # <<>>

\* the url a record of the last merge run keeps when its request fails: the
\* url of the place, or the page of the feature under the site
FallbackUrl(i) ==
    IF last[1] = "merge_webcams" THEN unescape_text(last[2][i][2].url)
    ELSE BASE_URL \o unescape_text(last[2][i][2].url)

\* C15: a record whose request failed (non-200, timeout, transport error, no
\* embed) ends with verified = false, radius = 200 and its original or
\* fallback url; the failure leaves the records of the successful requests of
\* the pass confirmed, and the pass ends with its summary.
C15_FailureIsLocal ==
    /\ MergeFinished =>
          \A i \in 1..BatchSize :
              ~Succeeded(i) =>
                  /\ IsUnconfirmed(BatchRecord(i))
                  /\ BatchRecord(i).url = FallbackUrl(i)
                  /\ BatchRecord(i).url # ""
                  /\ ending = "summary"
                  /\ \A j \in 1..BatchSize : Succeeded(j) => IsConfirmed(BatchRecord(j))
    /\ RetryFinished =>
          \A i \in DOMAIN last[3] :
              ~last[3][i][1][3] =>
                  /\ TargetRecord(i) = last[2][i][3]
                  /\ IsUnconfirmed(TargetRecord(i))
                  /\ TargetRecord(i).url # ""
                  /\ ending = "summary"
                  /\ \A j \in DOMAIN last[3] :
                        last[3][j][1][3] => /\ IsConfirmed(TargetRecord(j))
                                            /\ TargetRecord(j).url = last[3][j][1][1][1]
    /\ \A resp \in Responses :
          (resp.kind # "response" \/ resp.status # 200) =>
              /\ ~verify_url(resp)
              /\ fetch_iframe_url(resp) = <<<<>>, FALSE>>
              /\ ~retry_fetch_iframe_url(resp)[3]

\* a retry over two records has finished: the first request timed out and its
\* record is as it was, the second found the iframe and its record is confirmed
C15_Witness ==
    /\ RetryFinished
    /\ Len(last[3]) = 2
    /\ last[3][1][1] = <<<<>>, 0, FALSE>>
    /\ last[3][2][1][3]
    /\ TargetRecord(1) = last[2][1][3]
    /\ IsConfirmed(TargetRecord(2))

\* C20: every run of a merge completes: it writes combined.json and ends with
\* its statistics summary, whatever the input files hold (an empty dataset
\* included) and however the requests fail.
C20_RunEndsWithSummary ==
    MergeFinished => combined_json # <<>> /\ ending = "summary"

-----------------------------------------------------------------------------
(* Properties of the geocoders *)

\* a lookup has just returned a result
LookupResolved ==
    gpc = "resolved" /\ ~gresult[1].raised /\ gresult[1].value # <<>>

\* the viewport of the first candidate of the answer
AnswerViewport == gresponse[1].candidates[1].viewport

\* C16: a result is an area if and only if the answer carries a viewport with
\* both corners whose latitude span or longitude span is above 0.02 degrees (a
\* span of exactly 0.02 on both axes is a point), in each of the three
\* geocoders.
C16_AreaIffSpanAbove ==
    LookupResolved =>
        (gresult[1].value[1].is_area <=>
            /\ AnswerViewport.northeast # <<>>
            /\ AnswerViewport.southwest # <<>>
            /\ \/ SpanExceedsDecimal(AnswerViewport.northeast[1].lat,
                                     AnswerViewport.southwest[1].lat)
               \/ SpanExceedsDecimal(AnswerViewport.northeast[1].lng,
                                     AnswerViewport.southwest[1].lng))

\* the answer is one of the failures: a transport failure, a status other than
\* OK, no candidate, or a first candidate without latitude or longitude
FailedAnswer(answer) ==
    \/ answer.transport # "ok"
    \/ answer.status # "OK"
    \/ answer.candidates = <<>>
    \/ answer.candidates[1].location.lat = <<>>
    \/ answer.candidates[1].location.lng = <<>>

\* C17: for an answer that is a failure, geocode_query returns None to its
\* caller and does not raise, in every geocoder.
C17_ResolverReturnsNull ==
    (gpc = "resolved" /\ FailedAnswer(gresponse[1])) => gresult[1] = Returned(<<>>)

\* the mode and the verified field of the record a driver stored; the records
\* of skyline_geocoder are lists with the tag at index 3 and no verified field
StoredMode == IF gscript = "skyline_geocoder" THEN grecord[1][4] ELSE grecord[1].mode
StoredVerified == IF gscript = "skyline_geocoder" THEN <<>> ELSE grecord[1].verified

\* a driver has stored the record of a lookup that returned a result
StoredResolved ==
    gpc = "done" /\ gresult # <<>> /\ ~gresult[1].raised /\ gresult[1].value # <<>>

\* C18: when a lookup resolves for a record, an area leaves the record with
\* mode manual and verified = false and a point leaves it with verified =
\* true, in each of the three drivers.
C18_AreaManualPointVerified ==
    StoredResolved =>
        IF gresult[1].value[1].is_area
        THEN StoredMode = "manual" /\ StoredVerified = <<FALSE>>
        ELSE StoredVerified = <<TRUE>>

\* the tokens of a query
QueryTokens(q) == LET words == SplitFrom(q, 1, "") IN {words[i] : i \in DOMAIN words}

\* a driver that calls extract_search_query has done so for the Porto Seguro page
PortoSeguroQueried ==
    /\ gscript \in {"rescrape_regional", "skyline_geocoder"}
    /\ gpc # "query"
    /\ gpage[1][1] = "Porto Seguro - Praia de Taperapuan Live cam"
    /\ gpage[1][2] = "Praia de Taperapuan, Porto Seguro"

\* C19: for the title 'Porto Seguro - Praia de Taperapuan Live cam' and the
\* subtitle 'Praia de Taperapuan, Porto Seguro', extract_search_query returns
\* a query with the tokens taperapuan, porto and seguro.
C19_PortoSeguroQuery ==
    PortoSeguroQueried =>
        /\ gquery # <<>>
        /\ {"taperapuan", "porto", "seguro"} \subseteq QueryTokens(gquery[1])

-----------------------------------------------------------------------------
(* Properties of the stages as rewriters of their dataset *)

\* main has just appended the record of data[idx + 1] to its output
RecordRewritten == idx' = idx + 1 /\ Len(output_data') = Len(output_data) + 1

\* C21: a stage that loads and saves the dataset keeps every field it does not
\* enrich.  Stated for classify_records.main, which enriches the tag (index 3)
\* and the radius (index 4) of a record: every other field of the record it
\* read is in the record it writes, with the same value.
C21_FieldsKept ==
    [][RecordRewritten =>
          LET record == data[idx + 1]
              new_record == output_data'[Len(output_data')]
          IN \A k \in DOMAIN record \ {4, 5} :
                k <= Len(new_record) /\ new_record[k] = record[k]]_vars

-----------------------------------------------------------------------------
(* Properties of the batches and the workers of fetch_wct_youtube *)

\* the first index (from 0) that no finished batch covers
Processed == Min(batch_idx * Concurrency, Total)

\* combined.json is saved in the turn of the batch loop that ends now
CheckpointWritten == ypc = "gather" /\ Len(disk') = Len(disk) + 1

\* the url a record has once its result is applied
UrlAfter(i) == IF yt_log[i] # <<>> /\ yt_log[i][1] # <<>> THEN yt_log[i][1][1] ELSE yt_input[i].url

\* C22: whenever fetch_wct_youtube saves combined.json between batches, no
\* worker task is running, every record of every finished batch has its
\* result applied, and no record of a later batch has been fetched or changed.
C22_CheckpointBetweenBatches ==
    [][CheckpointWritten =>
          LET written == disk'[Len(disk')] IN
          /\ \A w \in DOMAIN tasks' : tasks'[w].at = "done"
          /\ \A p \in DOMAIN page_users' : page_users'[p] = {}
          /\ \A i \in 1..Total :
                IF i <= Processed'
                THEN /\ yt_log'[i] # <<>>
                     /\ written[i] = [yt_input[i] EXCEPT !.url = UrlAfter(i)']
                ELSE /\ fetches'[i] = <<>>
                     /\ written[i] = yt_input[i]]_vars

\* combined.json has been saved after the first of two batches, with the
\* YouTube url of a record of that batch in it
C22_Witness ==
    /\ ypc \in {"batch", "gather"}
    /\ batch_idx = 1
    /\ Len(disk) = 1
    /\ \E i \in 1..Total : IsYoutubeUrl(disk[1][i].url)
    /\ \E i \in 1..Total : disk[1][i] = yt_input[i] /\ yt_log[i] = <<>>

\* C23: in a pass each targeted record is fetched by exactly one worker,
\* exactly once, and its result is applied to that record only: while the
\* pass runs no record has been fetched twice, and when it is over every
\* record has been fetched once and has the url of its own result.
C23_OneFetchPerRecord ==
    /\ ypc \in {"batch", "gather", "close", "done"} =>
          \A i \in 1..Total :
              /\ Len(fetches[i]) <= 1
              /\ yt_log[i] # <<>> => Len(fetches[i]) = 1
    /\ ypc \in {"close", "done"} =>
          \A i \in 1..Total :
              /\ Len(fetches[i]) = 1
              /\ wct_records[i] = [yt_input[i] EXCEPT !.url = UrlAfter(i)]

\* a pass of two batches is over: the record of the second batch has a YouTube
\* url and a record of the first batch, whose navigation failed, has its own
C23_Witness ==
    /\ ypc = "done"
    /\ Total = 3 /\ NumBatches = 2
    /\ yt_log[1] = <<<<>>>> /\ wct_records[1] = yt_input[1]
    /\ IsYoutubeUrl(wct_records[3].url)
    /\ fetches[3] # fetches[2]

\* the number of navigations in flight
InFlight == Cardinality({w \in DOMAIN tasks : tasks[w].at = "fetching"})

\* C24: at every moment of the pass at most --concurrency navigations are in
\* flight, and no browser page is used by two workers at once.
C24_PoolBound ==
    ypc \in {"batch", "gather", "close", "done"} =>
        /\ InFlight <= yargs[1].concurrency
        /\ InFlight <= Concurrency
        /\ \A p \in DOMAIN page_users : Cardinality(page_users[p]) <= 1

\* two workers are navigating at once, each on its page, and a record waits
\* for the next batch
C24_Witness ==
    /\ ypc = "gather"
    /\ Total = 3
    /\ InFlight = 2 /\ yargs[1].concurrency = 2
    /\ page_users[1] = {1} /\ page_users[2] = {2}

-----------------------------------------------------------------------------
(* Properties of the retry pass *)

\* the retry is finishing its pass
RetryFinishing == pass = "retry" /\ pass' = "idle"

\* the result of the request for target i says failure
RetryFailed(i) == ~(results[i][1][3] /\ results[i][1][1] # <<>> /\ results[i][1][1] # <<"">>)

\* C25: the retry pass issues requests only for the records with source WCT
\* and verified exactly false; every other record, and every retried record
\* whose retry fails, has all its fields unchanged after the pass.
C25_RetryFrame ==
    [][/\ pass = "retry" =>
             /\ DOMAIN results = DOMAIN wct_targets
             /\ \A i \in DOMAIN wct_targets :
                   LET rec == combined_json[1][wct_targets[i][1]][wct_targets[i][2]]
                   IN rec.source = "WCT" /\ rec.verified = <<FALSE>> /\ rec = wct_targets[i][3]
       /\ RetryFinishing =>
             /\ DOMAIN combined_json'[1] = DOMAIN combined_json[1]
             /\ \A c \in DOMAIN combined_json[1] :
                   /\ Len(combined_json'[1][c]) = Len(combined_json[1][c])
                   /\ \A j \in DOMAIN combined_json[1][c] :
                         LET rec == combined_json[1][c][j] IN
                         (\/ rec.source # "WCT"
                          \/ rec.verified # <<FALSE>>
                          \/ (TargetIndex(c, j) # 0 /\ RetryFailed(TargetIndex(c, j))))
                         => combined_json'[1][c][j] = rec]_vars

\* the records of combined.json that satisfy a condition
Some(Cond(_)) ==
    \E c \in DOMAIN combined_json[1] : \E j \in DOMAIN combined_json[1][c] :
        Cond(combined_json[1][c][j])

\* a retry has finished over a file that holds an unverified EarthCam record
\* and a record with verified null: one retried record failed, one succeeded
C25_Witness ==
    /\ RetryFinished
    /\ Len(last[2]) = 2
    /\ ~last[3][1][1][3] /\ last[3][2][1][3]
    /\ TargetRecord(1) = last[2][1][3]
    /\ Some(LAMBDA rec : rec.source = "EW" /\ rec.verified = <<FALSE>>)
    /\ Some(LAMBDA rec : rec.verified = <<>>)

\* the retry starts a pass right after a retry pass
RetryAfterRetry == pass = "idle" /\ pass' = "retry" /\ last # <<>> /\ last[1] = "retry"

\* C29: over successive retry passes a WCT record with verified = true and
\* radius = 10 stays so, and the records a pass targets are among those the
\* pass before it targeted and failed on.
C29_RetryMonotone ==
    [][/\ combined_json'[1] # combined_json[1] =>
             \A c \in DOMAIN combined_json[1] : \A j \in DOMAIN combined_json[1][c] :
                 (combined_json[1][c][j].source = "WCT" /\ IsConfirmed(combined_json[1][c][j]))
                 => /\ c \in DOMAIN combined_json'[1]
                    /\ j \in DOMAIN combined_json'[1][c]
                    /\ combined_json'[1][c][j] = combined_json[1][c][j]
       /\ RetryAfterRetry =>
             \A t \in DOMAIN wct_targets' :
                 \E i \in DOMAIN last[2] :
                     /\ last[2][i][1] = wct_targets'[t][1]
                     /\ last[2][i][2] = wct_targets'[t][2]
                     /\ ~last[3][i][1][3]]_vars

\* a second retry pass has started: of the two records of the first pass, the
\* one that failed is targeted again and the one that succeeded is confirmed
C29_Witness ==
    /\ pass = "retry"
    /\ last # <<>> /\ last[1] = "retry" /\ Len(last[2]) = 2
    /\ Len(wct_targets) = 1
    /\ \E i \in 1..2 : last[3][i][1][3] /\ IsConfirmed(TargetRecord(i))

-----------------------------------------------------------------------------
(* Properties of the query builders and of the cascade *)

\* a driver has called extract_search_query for its page or record
QueryExtracted ==
    /\ gpc # "query"
    /\ \/ gscript = "rescrape_regional"
       \/ gscript = "skyline_geocoder" /\ gpage[1][4] = "automatic"

\* C28: the two implementations of extract_search_query (skyline_geocoder,
\* rescrape_regional) give the same result for every input: the query a driver
\* extracted is the one either implementation returns for the title and the
\* subtitle.
C28_SameQueryInBoth ==
    QueryExtracted =>
        /\ gquery = extract_search_query(gpage[1][1], gpage[1][2])
        /\ gquery = skyline_extract_search_query(gpage[1][1], gpage[1][2])

\* smart_geocoder has built the list of queries of a record without coordinates
QueriesBuilt ==
    /\ gscript = "smart_geocoder" /\ gpc # "query"
    /\ gpage[1].latitude = <<>> \/ gpage[1].longitude = <<>>

TitleLoc == extract_title_location(gpage[1].title)
SubtitleLoc == extract_subtitle_locations(gpage[1].subtitle)

\* the words of the title location, then those of the subtitle location
LocWords == SplitFrom(TitleLoc, 1, "") \o SplitFrom(SubtitleLoc, 1, "")

\* the positions of LocWords that hold a word for the first time, whatever the
\* casing
FirstOccurrences ==
    {i \in DOMAIN LocWords : \A j \in 1..(i - 1) : Lower(LocWords[j]) # Lower(LocWords[i])}

\* the first occurrences of the words that are not the country
FirstOccurrencesButCountry ==
    {i \in FirstOccurrences : Lower(LocWords[i]) # Lower(gcountry)}

\* the words at the positions, in the order of the positions
RECURSIVE WordsAt(_, _)
WordsAt(positions, from) ==
    IF from > Len(LocWords) THEN <<>>
    ELSE (IF from \in positions THEN <<LocWords[from]>> ELSE <<>>)
         \o WordsAt(positions, from + 1)

\* the four candidates by rank, each <<q>> or <<>> when its inputs are empty; the
\* first is made of the words at the positions
Candidates(positions) ==
    << IF positions = {} THEN <<>> ELSE <<JoinWords(WordsAt(positions, 1)) \o " " \o gcountry>>,
       IF TitleLoc = "" THEN <<>> ELSE <<TitleLoc \o " " \o gcountry>>,
       IF TitleLoc = "" THEN <<>> ELSE <<TitleLoc>>,
       IF SubtitleLoc = "" THEN <<>> ELSE <<SubtitleLoc \o " " \o gcountry>> >>

\* the list holds candidates only, by increasing rank, and every candidate that
\* has its inputs; it holds no string twice, has at most four entries and is
\* empty exactly when both locations are
RankedList(queries, candidates) ==
    /\ \E rank \in [DOMAIN queries -> 1..4] :
          /\ \A i \in DOMAIN queries : candidates[rank[i]] = <<queries[i]>>
          /\ \A i, j \in DOMAIN queries : i < j => rank[i] < rank[j]
    /\ \A k \in 1..4 : candidates[k] # <<>> => InList(candidates[k][1], queries)
    /\ \A i, j \in DOMAIN queries : i # j => queries[i] # queries[j]
    /\ Len(queries) <= 4
    /\ queries = <<>> <=> (TitleLoc = "" /\ SubtitleLoc = "")

\* C27 as stated: build_queries returns the candidates in the rank order (title
\* and subtitle words deduplicated + country), (title location + country),
\* (title location alone), (subtitle location + country), omitting candidates
\* whose inputs are empty; the list never contains the same string twice, has
\* at most four entries, and is empty exactly when both locations are empty.
C27_RankedQueries ==
    QueriesBuilt => RankedList(gqueries, Candidates(FirstOccurrences))

\* C27 as amended: the same, with the first candidate made of the title and
\* subtitle words that are not the country (compared without regard to case),
\* each once, + country, and omitted when no such word is left.
C27_RankedQueriesButCountry ==
    QueriesBuilt => RankedList(gqueries, Candidates(FirstOccurrencesButCountry))

\* a list of four queries, and a list of three for a title location that holds
\* the country
C27_Witness ==
    /\ QueriesBuilt
    /\ \/ Len(gqueries) = 4
       \/ Len(gqueries) = 3 /\ FirstOccurrencesButCountry # FirstOccurrences

\* the result of a call of geocode_query, or <<>> for None
ResultOf(lookup) == lookup.result.value

\* C26: the cascade of smart_geocoder looks the queries up in the order of
\* the list, one call per query; no query is looked up after a call returned a
\* result; when the cascade has ended, the coordinates of the record are those
\* of that first result, and they are unset when every query of the list was
\* looked up without a result.
C26_CascadeInOrder ==
    gscript = "smart_geocoder" =>
        /\ Len(glookups) <= Len(gqueries)
        /\ \A i \in DOMAIN glookups : glookups[i].query = gqueries[i]
        /\ \A i \in DOMAIN glookups : ResultOf(glookups[i]) # <<>> => i = Len(glookups)
        /\ (gpc = "done" /\ QueriesBuilt /\ gqueries # <<>>) =>
              IF ResultOf(glookups[Len(glookups)]) # <<>>
              THEN /\ grecord[1].latitude = <<ResultOf(glookups[Len(glookups)])[1].lat>>
                   /\ grecord[1].longitude = <<ResultOf(glookups[Len(glookups)])[1].lng>>
              ELSE /\ Len(glookups) = Len(gqueries)
                   /\ grecord[1].latitude = <<>> /\ grecord[1].longitude = <<>>

\* a cascade that ended at its second query, with a third one left
C26_Witness ==
    /\ gscript = "smart_geocoder" /\ gpc = "done"
    /\ Len(glookups) = 2 /\ Len(gqueries) > 2
    /\ ResultOf(glookups[1]) = <<>> /\ ResultOf(glookups[2]) # <<>>
    /\ grecord[1].latitude # <<>>

=============================================================================
